---- MODULE Spec2Model ----
(***************************************************************************)
(* Model of PageObjectGenerator.extractAccessibleElements and of the       *)
(* filter chain and text utilities it uses.                                *)
(*                                                                         *)
(* A JavaScript string is a sequence of one-character strings, so that     *)
(* concatenation, includes(), replace() and case conversion are computed   *)
(* character by character as the code computes them.  Attribute names,     *)
(* which the code only ever uses as literal keys, are plain strings.       *)
(***************************************************************************)
EXTENDS Integers, Sequences, FiniteSets, TLC

VARIABLES
  config,            \* the caller's PageObjectConfig (only the keys it sets)
  dom,               \* the document: the nodes the combined query matches, in document order
  pc,                \* position of _extractAccessibleElementsInternal
  outcome,           \* what the caller of extractAccessibleElements has seen
  mergedConfig,      \* result of mergeConfig
  elementHandles,    \* result of page.locator(selector).all()
  i,                 \* start index (0-based) of the current batch
  batchResults,      \* the slots of Promise.all(batchPromises)
  elementDetails,    \* elements collected so far
  filteredElements,  \* the working set of the filter chain
  asyncIndex,        \* position (0-based) of the second loop over elementFilters
  visIndex,          \* position (0-based) of the loop of VisibilityFilter.filterAsync
  visibleElements,   \* accumulator of VisibilityFilter.filterAsync
  result,            \* value the internal call resolved with
  running,           \* the extractElementInfo operations started and not yet ended
  pageObject,        \* what generatePageObject returned: its className and its lines
  previous,          \* what an earlier call on the same page and configuration returned
  driverLog,         \* history: the driver methods called so far
  settled,           \* history: how the task of each handle settled ("none" before)
  outOfOrder,        \* history: a task settled while an earlier one of its batch had not
  visInput,          \* history: the elements VisibilityFilter.filterAsync was called with
  visAnswers,        \* history: the answers of isVisible, in query order
  filterLog          \* history: the transforms of the filter stages invoked, with their inputs

vars == <<config, dom, pc, outcome, mergedConfig, elementHandles, i, batchResults,
          elementDetails, filteredElements, asyncIndex, visIndex, visibleElements,
          result, running, pageObject, previous, driverLog, settled, outOfOrder,
          visInput, visAnswers, filterLog>>

\* the history variables
history == <<settled, outOfOrder, visInput, visAnswers, filterLog>>

-----------------------------------------------------------------------------
(* Bounds of the model *)

\* longest document drawn from the full node pool
MaxNodes == 1

\* how many nodes beyond one full batch the long document has
MaxExtra == 1

-----------------------------------------------------------------------------
(* JavaScript values and string primitives *)

\* JavaScript undefined (a missing key); no character sequence equals it
Undefined == <<"undefined">>

\* JavaScript undefined where an element record is expected
UndefinedElement == [undefined |-> TRUE]

\* JavaScript null where an element record is expected
Null == [null |-> TRUE]

UpperAlpha == <<"A","B","C","D","E","F","G","H","I","J","K","L","M","N","O","P","Q","R","S","T","U","V","W","X","Y","Z">>

LowerAlpha == <<"a","b","c","d","e","f","g","h","i","j","k","l","m","n","o","p","q","r","s","t","u","v","w","x","y","z">>

DigitChars == <<"0","1","2","3","4","5","6","7","8","9">>

Range(s) == {s[k] : k \in DOMAIN s}

IsUpper(c) == c \in Range(UpperAlpha)

IsLower(c) == c \in Range(LowerAlpha)

IsDigit(c) == c \in Range(DigitChars)

\* the regular-expression class a-zA-Z0-9
AlnumChars == Range(UpperAlpha) \cup Range(LowerAlpha) \cup Range(DigitChars)

\* the regular-expression class \w
WordChars == AlnumChars \cup {"_"}

IsWordChar(c) == c \in WordChars

\* the regular-expression class \s (space, tab, line feed, carriage return)
IsSpace(c) == c \in {" ", "\t", "\n", "\r"}

AlphaIndex(alpha, c) == CHOOSE k \in DOMAIN alpha : alpha[k] = c

LowerChar(c) == IF IsUpper(c) THEN LowerAlpha[AlphaIndex(UpperAlpha, c)] ELSE c

UpperChar(c) == IF IsLower(c) THEN UpperAlpha[AlphaIndex(LowerAlpha, c)] ELSE c

ToLowerCase(s) == [k \in DOMAIN s |-> LowerChar(s[k])]

ToUpperCase(s) == [k \in DOMAIN s |-> UpperChar(s[k])]

\* a value used as a condition: undefined and '' are falsy
Truthy(s) == s # Undefined /\ s # <<>>

\* x || y on strings
OrElse(x, y) == IF Truthy(x) THEN x ELSE y

Includes(s, sub) ==
  \E k \in 0..(Len(s) - Len(sub)) : SubSeq(s, k + 1, k + Len(sub)) = sub

\* s?.includes(sub) for a possibly undefined s
OptIncludes(s, sub) == s # Undefined /\ Includes(s, sub)

StartsWith(s, pre) == Len(pre) <= Len(s) /\ SubSeq(s, 1, Len(pre)) = pre

RECURSIVE TrimStart(_)
TrimStart(s) == IF s # <<>> /\ IsSpace(Head(s)) THEN TrimStart(Tail(s)) ELSE s

RECURSIVE TrimEnd(_)
TrimEnd(s) ==
  IF s # <<>> /\ IsSpace(s[Len(s)]) THEN TrimEnd(SubSeq(s, 1, Len(s) - 1)) ELSE s

Trim(s) == TrimEnd(TrimStart(s))

\* String(n) for a non-negative integer
RECURSIVE Str(_)
Str(n) == IF n < 10 THEN <<DigitChars[n + 1]>>
          ELSE Str(n \div 10) \o <<DigitChars[(n % 10) + 1]>>

\* s.replace(/[^<class>]/g, ''), the class given as its set of characters
RemoveChars(s, class) == SelectSeq(s, LAMBDA c : c \in class)

\* s.replace(/\s+/g, ' ')
RECURSIVE CollapseSpaces(_)
CollapseSpaces(s) ==
  IF s = <<>> THEN <<>>
  ELSE IF IsSpace(Head(s))
       THEN <<" ">> \o CollapseSpaces(TrimStart(s))
       ELSE <<Head(s)>> \o CollapseSpaces(Tail(s))

\* s.split(sep) for a one-character separator: '' splits into ['']
RECURSIVE Split(_, _)
Split(s, sep) ==
  IF \A k \in DOMAIN s : s[k] # sep THEN <<s>>
  ELSE LET k == CHOOSE j \in DOMAIN s : s[j] = sep /\ \A h \in 1..(j - 1) : s[h] # sep
       IN <<SubSeq(s, 1, k - 1)>> \o Split(SubSeq(s, k + 1, Len(s)), sep)

\* parts.join('')
RECURSIVE Concat(_)
Concat(parts) == IF parts = <<>> THEN <<>> ELSE Head(parts) \o Concat(Tail(parts))

\* s.replace(/^\d+/, '')
RECURSIVE DropLeadingDigits(_)
DropLeadingDigits(s) ==
  IF s # <<>> /\ IsDigit(Head(s)) THEN DropLeadingDigits(Tail(s)) ELSE s

-----------------------------------------------------------------------------
(* utils.ts *)

toCamelCaseWord(word, index) ==
  IF index = 0 THEN ToLowerCase(word)
  ELSE IF word = <<>> THEN <<>>
  ELSE <<UpperChar(Head(word))>> \o ToLowerCase(Tail(word))

toCamelCase(input) ==
  IF ~Truthy(input) THEN <<"e","l","e","m","e","n","t">>
  ELSE LET punct  == [k \in DOMAIN input |->
                        IF IsWordChar(input[k]) \/ IsSpace(input[k]) THEN input[k] ELSE " "]
           words  == Split(Trim(CollapseSpaces(punct)), " ")
           mapped == [k \in DOMAIN words |-> toCamelCaseWord(words[k], k - 1)]
           joined == RemoveChars(Concat(mapped), WordChars)
           nodigs == DropLeadingDigits(joined)
           first  == IF nodigs # <<>>
                        /\ ~(IsUpper(Head(nodigs)) \/ IsLower(Head(nodigs))
                             \/ Head(nodigs) \in {"_", "$"})
                     THEN Tail(nodigs) ELSE nodigs
       IN OrElse(first, <<"e","l","e","m","e","n","t">>)

sanitizeKey(input) ==
  ToLowerCase(RemoveChars(input, AlnumChars))

\* input.replace(/'/g, "\\'"), computed by halves
RECURSIVE escapeString(_)
escapeString(input) ==
  IF input = <<>> THEN <<>>
  ELSE IF Len(input) = 1 THEN (IF input[1] = "'" THEN <<"\\", "'">> ELSE input)
  ELSE LET half == Len(input) \div 2
       IN escapeString(SubSeq(input, 1, half))
          \o escapeString(SubSeq(input, half + 1, Len(input)))

\* uniqueNameLoop with the loop run at most once: the suffixed name is not
\* checked against usedNames again
uniqueNameLoopOnce(propertyName, usedNames, uniqueName, counter) ==
  IF uniqueName \in usedNames THEN propertyName \o Str(counter) ELSE uniqueName

\* the while loop of uniquifyPropertyNames
RECURSIVE uniqueNameLoop(_, _, _, _)
uniqueNameLoop(propertyName, usedNames, uniqueName, counter) ==
  IF uniqueName \in usedNames
  THEN uniqueNameLoop(propertyName, usedNames, propertyName \o Str(counter), counter + 1)
  ELSE uniqueName

RECURSIVE uniquifyFrom(_, _)
uniquifyFrom(elements, usedNames) ==
  IF elements = <<>> THEN <<>>
  ELSE LET element    == Head(elements)
           uniqueName == uniqueNameLoop(element.propertyName, usedNames,
                                        element.propertyName, 1)
       IN <<[element EXCEPT !.propertyName = uniqueName]>>
          \o uniquifyFrom(Tail(elements), usedNames \cup {uniqueName})

uniquifyPropertyNames(elements) == uniquifyFrom(elements, {})

\* a property key that JavaScript treats as an array index; such keys are
\* enumerated first, in ascending numeric order
IsIndexKey(key) ==
  /\ key # <<>>
  /\ \A k \in DOMAIN key : IsDigit(key[k])
  /\ (Len(key) = 1 \/ key[1] # "0")

RECURSIVE KeyNumber(_)
KeyNumber(key) ==
  IF key = <<>> THEN 0
  ELSE 10 * KeyNumber(SubSeq(key, 1, Len(key) - 1))
       + (AlphaIndex(DigitChars, key[Len(key)]) - 1)

\* groupByReduce with a group that receives an element moved behind all others
RECURSIVE groupByReduceMoveToEnd(_, _)
groupByReduceMoveToEnd(keyed, groups) ==
  IF keyed = <<>> THEN groups
  ELSE LET element == Head(keyed).element
           key     == Head(keyed).key
           old     == SelectSeq(groups, LAMBDA g : g.key = key)
           others  == SelectSeq(groups, LAMBDA g : g.key # key)
           next    ==
             IF old # <<>>
             THEN Append(others, [old[1] EXCEPT !.group = Append(@, element)])
             ELSE Append(groups, [key |-> key, group |-> <<element>>])
       IN groupByReduceMoveToEnd(Tail(keyed), next)

\* the reduce of groupBy over the elements paired with their keys: the groups
\* as a sequence of [key, group] in insertion order
RECURSIVE groupByReduce(_, _)
groupByReduce(keyed, groups) ==
  IF keyed = <<>> THEN groups
  ELSE LET element == Head(keyed).element
           key     == Head(keyed).key
           next    ==
             IF \E g \in DOMAIN groups : groups[g].key = key
             THEN [g \in DOMAIN groups |->
                     IF groups[g].key = key
                     THEN [groups[g] EXCEPT !.group = Append(@, element)]
                     ELSE groups[g]]
             ELSE Append(groups, [key |-> key, group |-> <<element>>])
       IN groupByReduce(Tail(keyed), next)

\* groupBy, with its entries in the order Object.values / Object.entries visit
\* them; keyFn is the key function as the sequence of the elements' keys
groupBy(elements, keyFn) ==
  LET keyed   == [k \in DOMAIN elements |->
                    [key |-> keyFn[k], element |-> elements[k]]]
      groups  == groupByReduce(keyed, <<>>)
      indexed == SelectSeq(groups, LAMBDA g : IsIndexKey(g.key))
      named   == SelectSeq(groups, LAMBDA g : ~IsIndexKey(g.key))
  IN SortSeq(indexed, LAMBDA a, b : KeyNumber(a.key) < KeyNumber(b.key)) \o named

-----------------------------------------------------------------------------
(* PageObjectGenerator.ts: classification, selector and name synthesis *)

\* attributes[key] of an attribute snapshot (a record of the attributes present)
Attr(attributes, key) == IF key \in DOMAIN attributes THEN attributes[key] ELSE Undefined

getElementType(tagName, role, type) ==
  LET tag            == ToLowerCase(tagName)
      roleNormalized == ToLowerCase(role)
      typeNormalized == ToLowerCase(type)
  IN IF \/ tag = <<"b","u","t","t","o","n">>
        \/ roleNormalized = <<"b","u","t","t","o","n">>
        \/ (tag = <<"i","n","p","u","t">> /\ typeNormalized \in {<<"b","u","t","t","o","n">>, <<"s","u","b","m","i","t">>, <<"r","e","s","e","t">>})
     THEN <<"b","u","t","t","o","n">>
     ELSE IF tag = <<"a">> \/ roleNormalized = <<"l","i","n","k">> THEN <<"l","i","n","k">>
     ELSE IF tag = <<"i","n","p","u","t">>
     THEN IF typeNormalized \in {<<"c","h","e","c","k","b","o","x">>, <<"r","a","d","i","o">>, <<"f","i","l","e">>, <<"r","a","n","g","e">>, <<"c","o","l","o","r">>,
                                 <<"d","a","t","e">>, <<"t","i","m","e">>, <<"d","a","t","e","t","i","m","e","-","l","o","c","a","l">>, <<"m","o","n","t","h">>,
                                 <<"w","e","e","k">>, <<"p","a","s","s","w","o","r","d">>, <<"e","m","a","i","l">>, <<"t","e","l">>, <<"u","r","l">>}
          THEN typeNormalized
          ELSE <<"i","n","p","u","t">>
     ELSE IF tag = <<"s","e","l","e","c","t">> \/ roleNormalized = <<"c","o","m","b","o","b","o","x">> THEN <<"s","e","l","e","c","t">>
     ELSE IF tag = <<"t","e","x","t","a","r","e","a">> THEN <<"t","e","x","t","a","r","e","a">>
     ELSE IF tag = <<"i","m","g">> \/ roleNormalized = <<"i","m","g">> THEN <<"i","m","a","g","e">>
     ELSE IF tag \in {<<"h","1">>, <<"h","2">>, <<"h","3">>, <<"h","4">>, <<"h","5">>, <<"h","6">>} THEN <<"h","e","a","d","i","n","g">>
     ELSE IF tag = <<"l","a","b","e","l">> \/ roleNormalized = <<"l","i","n","k">> THEN <<"l","a","b","e","l">>
     ELSE IF tag \in {<<"d","i","v">>, <<"s","p","a","n">>}
             /\ roleNormalized \in {<<"a","l","e","r","t">>, <<"s","t","a","t","u","s">>, <<"a","l","e","r","t","d","i","a","l","o","g">>}
     THEN <<"a","l","e","r","t">>
     ELSE IF tag \in {<<"d","i","v">>, <<"s","p","a","n">>} /\ roleNormalized \in {<<"d","i","a","l","o","g">>, <<"m","o","d","a","l">>}
     THEN <<"d","i","a","l","o","g">>
     ELSE IF tag \in {<<"d","i","v">>, <<"s","p","a","n">>} /\ roleNormalized = <<"t","a","b">> THEN <<"t","a","b">>
     ELSE IF tag \in {<<"p">>, <<"s","p","a","n">>, <<"d","i","v">>, <<"s","e","c","t","i","o","n">>, <<"a","r","t","i","c","l","e">>, <<"m","a","i","n">>,
                      <<"a","s","i","d","e">>, <<"h","e","a","d","e","r">>, <<"f","o","o","t","e","r">>, <<"n","a","v">>}
     THEN <<"t","e","x","t">>
     ELSE OrElse(tag, <<"g","e","n","e","r","i","c">>)

\* the table socialDomains of generateHrefName, in the order of its entries
socialDomains ==
  << <<<<"i","n","s","t","a","g","r","a","m",".","c","o","m">>, <<"i","n","s","t","a","g","r","a","m">>>>,
     <<<<"l","i","n","k","e","d","i","n",".","c","o","m">>, <<"l","i","n","k","e","d","i","n">>>>,
     <<<<"f","a","c","e","b","o","o","k",".","c","o","m">>, <<"f","a","c","e","b","o","o","k">>>>,
     <<<<"t","w","i","t","t","e","r",".","c","o","m">>, <<"t","w","i","t","t","e","r">>>>,
     <<<<"x",".","c","o","m">>, <<"t","w","i","t","t","e","r">>>>,
     <<<<"y","o","u","t","u","b","e",".","c","o","m">>, <<"y","o","u","t","u","b","e">>>>,
     <<<<"t","i","k","t","o","k",".","c","o","m">>, <<"t","i","k","t","o","k">>>> >>

\* s up to (excluding) the first character of stops
RECURSIVE UpTo(_, _)
UpTo(s, stops) ==
  IF s = <<>> \/ Head(s) \in stops THEN <<>> ELSE <<Head(s)>> \o UpTo(Tail(s), stops)

\* s.replace('www.', ''): the first occurrence only
RemoveFirst(s, sub) ==
  IF ~Includes(s, sub) THEN s
  ELSE LET k == CHOOSE j \in 0..(Len(s) - Len(sub)) :
                  /\ SubSeq(s, j + 1, j + Len(sub)) = sub
                  /\ \A h \in 0..(j - 1) : SubSeq(s, h + 1, h + Len(sub)) # sub
       IN SubSeq(s, 1, k) \o SubSeq(s, k + Len(sub) + 1, Len(s))

\* new URL(u).hostname for an absolute http(s) URL with a plain host name
\* (no user info, no escapes): the lower-cased text between '//' and the
\* first of '/', ':', '?', '#'
UrlHostname(u) ==
  LET scheme == IF StartsWith(u, <<"h","t","t","p","s",":","/","/">>) THEN <<"h","t","t","p","s",":","/","/">> ELSE <<"h","t","t","p",":","/","/">>
  IN ToLowerCase(UpTo(SubSeq(u, Len(scheme) + 1, Len(u)), {"/", ":", "?", "#"}))

generateHrefName(href) ==
  IF \E d \in DOMAIN socialDomains : Includes(href, socialDomains[d][1])
  THEN LET d == CHOOSE e \in DOMAIN socialDomains :
                  /\ Includes(href, socialDomains[e][1])
                  /\ \A f \in 1..(e - 1) : ~Includes(href, socialDomains[f][1])
       IN socialDomains[d][2]
  ELSE IF StartsWith(href, <<"m","a","i","l","t","o",":">>) THEN <<"e","m","a","i","l","L","i","n","k">>
  ELSE IF StartsWith(href, <<"t","e","l",":">>) THEN <<"p","h","o","n","e","L","i","n","k">>
  ELSE LET url    == IF StartsWith(href, <<"h","t","t","p">>) THEN href ELSE <<"h","t","t","p","s",":","/","/">> \o href
           domain == Head(Split(RemoveFirst(UrlHostname(url), <<"w","w","w",".">>), "."))
       IN IF Truthy(domain) THEN domain \o <<"L","i","n","k">> ELSE <<"l","i","n","k">>

generateHrefKey(href, index) ==
  LET name == generateHrefName(href)
  IN IF name = <<"l","i","n","k">> THEN <<"l","i","n","k","_">> \o Str(index) ELSE name

\* generateSelector with the data-testid branch ahead of every other branch
generateSelectorTestIdFirst(tagName, role, textContent, ariaLabel, placeholder, attributes, index) ==
  LET testId == Attr(attributes, "data-testid")
      id     == Attr(attributes, "id")
      name   == Attr(attributes, "name")
      type   == Attr(attributes, "type")
      href   == Attr(attributes, "href")
      alt    == Attr(attributes, "alt")
      Sel(s, k) == [selector |-> s, key |-> k]
  IN IF Truthy(testId)
     THEN Sel(<<"g","e","t","B","y","T","e","s","t","I","d","(","'">> \o testId \o <<"'",")">>, sanitizeKey(testId))
     ELSE IF Truthy(role) /\ (Truthy(ariaLabel) \/ Truthy(textContent))
     THEN LET accessibleName == OrElse(ariaLabel, textContent)
          IN Sel(<<"g","e","t","B","y","R","o","l","e","(","'">> \o role \o <<"'",","," ","{"," ","n","a","m","e",":"," ","'">>
                   \o escapeString(accessibleName) \o <<"'"," ","}",")">>,
                 sanitizeKey(accessibleName))
     ELSE IF tagName \in {<<"i","n","p","u","t">>, <<"s","e","l","e","c","t">>, <<"t","e","x","t","a","r","e","a">>} /\ Truthy(ariaLabel)
     THEN Sel(<<"g","e","t","B","y","L","a","b","e","l","(","'">> \o escapeString(ariaLabel) \o <<"'",")">>, sanitizeKey(ariaLabel))
     ELSE IF tagName \in {<<"i","n","p","u","t">>, <<"s","e","l","e","c","t">>, <<"t","e","x","t","a","r","e","a">>} /\ Truthy(placeholder)
     THEN Sel(<<"g","e","t","B","y","P","l","a","c","e","h","o","l","d","e","r","(","'">> \o escapeString(placeholder) \o <<"'",")">>,
              sanitizeKey(placeholder))
     ELSE IF \/ tagName = <<"b","u","t","t","o","n">>
             \/ (tagName = <<"i","n","p","u","t">> /\ Truthy(type)
                 /\ type \in {<<"b","u","t","t","o","n">>, <<"s","u","b","m","i","t">>, <<"r","e","s","e","t">>})
     THEN IF Truthy(textContent)
          THEN Sel(<<"g","e","t","B","y","R","o","l","e","(","'","b","u","t","t","o","n","'",","," ","{"," ","n","a","m","e",":"," ","'">> \o escapeString(textContent)
                     \o <<"'"," ","}",")">>,
                   sanitizeKey(textContent))
          ELSE Sel(<<"g","e","t","B","y","R","o","l","e","(","'","b","u","t","t","o","n","'",")">>, <<"b","u","t","t","o","n","_">> \o Str(index))
     ELSE IF tagName = <<"a">>
     THEN IF Truthy(textContent)
          THEN Sel(<<"g","e","t","B","y","R","o","l","e","(","'","l","i","n","k","'",","," ","{"," ","n","a","m","e",":"," ","'">> \o escapeString(textContent)
                     \o <<"'"," ","}",")">>,
                   sanitizeKey(textContent))
          ELSE IF Truthy(href) /\ href # <<"#">> /\ Len(href) > 0
          THEN Sel(<<"l","o","c","a","t","o","r","(","'","a","[","h","r","e","f","=","\"">> \o href \o <<"\"","]","'",")">>, generateHrefKey(href, index))
          ELSE Sel(<<"l","o","c","a","t","o","r","(","'","a","'",")",".","n","t","h","(">> \o Str(index) \o <<")">>, <<"l","i","n","k","_">> \o Str(index))
     ELSE IF tagName = <<"i","m","g">>
     THEN IF Truthy(alt)
          THEN Sel(<<"g","e","t","B","y","A","l","t","T","e","x","t","(","'">> \o escapeString(alt) \o <<"'",")">>, sanitizeKey(alt))
          ELSE Sel(<<"g","e","t","B","y","R","o","l","e","(","'","i","m","g","'",")">>, <<"i","m","a","g","e","_">> \o Str(index))
     ELSE IF Truthy(textContent) /\ Len(textContent) > 0 /\ Len(textContent) < 100
     THEN Sel(<<"g","e","t","B","y","T","e","x","t","(","'">> \o escapeString(textContent) \o <<"'",")">>,
              sanitizeKey(textContent))
     ELSE IF Truthy(testId)
     THEN Sel(<<"g","e","t","B","y","T","e","s","t","I","d","(","'">> \o testId \o <<"'",")">>, sanitizeKey(testId))
     ELSE IF Truthy(id)
     THEN Sel(<<"l","o","c","a","t","o","r","(","'","#">> \o id \o <<"'",")">>, sanitizeKey(id))
     ELSE IF Truthy(name)
     THEN Sel(<<"l","o","c","a","t","o","r","(","'","[","n","a","m","e","=","\"">> \o name \o <<"\"","]","'",")">>, sanitizeKey(name))
     ELSE Sel(<<"l","o","c","a","t","o","r","(","'">> \o tagName \o <<"'",")",".","n","t","h","(">> \o Str(index) \o <<")">>,
              tagName \o <<"_">> \o Str(index))

\* the ElementSelector {selector, key} of generateSelector
generateSelector(tagName, role, textContent, ariaLabel, placeholder, attributes, index) ==
  LET testId == Attr(attributes, "data-testid")
      id     == Attr(attributes, "id")
      name   == Attr(attributes, "name")
      type   == Attr(attributes, "type")
      href   == Attr(attributes, "href")
      alt    == Attr(attributes, "alt")
      Sel(s, k) == [selector |-> s, key |-> k]
  IN IF Truthy(role) /\ (Truthy(ariaLabel) \/ Truthy(textContent))
     THEN LET accessibleName == OrElse(ariaLabel, textContent)
          IN Sel(<<"g","e","t","B","y","R","o","l","e","(","'">> \o role \o <<"'",","," ","{"," ","n","a","m","e",":"," ","'">>
                   \o escapeString(accessibleName) \o <<"'"," ","}",")">>,
                 sanitizeKey(accessibleName))
     ELSE IF tagName \in {<<"i","n","p","u","t">>, <<"s","e","l","e","c","t">>, <<"t","e","x","t","a","r","e","a">>} /\ Truthy(ariaLabel)
     THEN Sel(<<"g","e","t","B","y","L","a","b","e","l","(","'">> \o escapeString(ariaLabel) \o <<"'",")">>, sanitizeKey(ariaLabel))
     ELSE IF tagName \in {<<"i","n","p","u","t">>, <<"s","e","l","e","c","t">>, <<"t","e","x","t","a","r","e","a">>} /\ Truthy(placeholder)
     THEN Sel(<<"g","e","t","B","y","P","l","a","c","e","h","o","l","d","e","r","(","'">> \o escapeString(placeholder) \o <<"'",")">>,
              sanitizeKey(placeholder))
     ELSE IF \/ tagName = <<"b","u","t","t","o","n">>
             \/ (tagName = <<"i","n","p","u","t">> /\ Truthy(type)
                 /\ type \in {<<"b","u","t","t","o","n">>, <<"s","u","b","m","i","t">>, <<"r","e","s","e","t">>})
     THEN IF Truthy(textContent)
          THEN Sel(<<"g","e","t","B","y","R","o","l","e","(","'","b","u","t","t","o","n","'",","," ","{"," ","n","a","m","e",":"," ","'">> \o escapeString(textContent)
                     \o <<"'"," ","}",")">>,
                   sanitizeKey(textContent))
          ELSE Sel(<<"g","e","t","B","y","R","o","l","e","(","'","b","u","t","t","o","n","'",")">>, <<"b","u","t","t","o","n","_">> \o Str(index))
     ELSE IF tagName = <<"a">>
     THEN IF Truthy(textContent)
          THEN Sel(<<"g","e","t","B","y","R","o","l","e","(","'","l","i","n","k","'",","," ","{"," ","n","a","m","e",":"," ","'">> \o escapeString(textContent)
                     \o <<"'"," ","}",")">>,
                   sanitizeKey(textContent))
          ELSE IF Truthy(href) /\ href # <<"#">> /\ Len(href) > 0
          THEN Sel(<<"l","o","c","a","t","o","r","(","'","a","[","h","r","e","f","=","\"">> \o href \o <<"\"","]","'",")">>, generateHrefKey(href, index))
          ELSE Sel(<<"l","o","c","a","t","o","r","(","'","a","'",")",".","n","t","h","(">> \o Str(index) \o <<")">>, <<"l","i","n","k","_">> \o Str(index))
     ELSE IF tagName = <<"i","m","g">>
     THEN IF Truthy(alt)
          THEN Sel(<<"g","e","t","B","y","A","l","t","T","e","x","t","(","'">> \o escapeString(alt) \o <<"'",")">>, sanitizeKey(alt))
          ELSE Sel(<<"g","e","t","B","y","R","o","l","e","(","'","i","m","g","'",")">>, <<"i","m","a","g","e","_">> \o Str(index))
     ELSE IF Truthy(textContent) /\ Len(textContent) > 0 /\ Len(textContent) < 100
     THEN Sel(<<"g","e","t","B","y","T","e","x","t","(","'">> \o escapeString(textContent) \o <<"'",")">>,
              sanitizeKey(textContent))
     ELSE IF Truthy(testId)
     THEN Sel(<<"g","e","t","B","y","T","e","s","t","I","d","(","'">> \o testId \o <<"'",")">>, sanitizeKey(testId))
     ELSE IF Truthy(id)
     THEN Sel(<<"l","o","c","a","t","o","r","(","'","#">> \o id \o <<"'",")">>, sanitizeKey(id))
     ELSE IF Truthy(name)
     THEN Sel(<<"l","o","c","a","t","o","r","(","'","[","n","a","m","e","=","\"">> \o name \o <<"\"","]","'",")">>, sanitizeKey(name))
     ELSE Sel(<<"l","o","c","a","t","o","r","(","'">> \o tagName \o <<"'",")",".","n","t","h","(">> \o Str(index) \o <<")">>,
              tagName \o <<"_">> \o Str(index))

generateFallbackName(elementType, tagName, attributes, index) ==
  LET href     == Attr(attributes, "href")
      alt      == Attr(attributes, "alt")
      src      == Attr(attributes, "src")
      type     == Attr(attributes, "type")
      value    == Attr(attributes, "value")
      default  == elementType \o <<"_">> \o Str(index)
      srcParts == Split(src, "/")
      filename == Head(Split(srcParts[Len(srcParts)], "."))
  IN IF tagName = <<"a">>
     THEN IF Truthy(href) THEN generateHrefName(href) ELSE default
     ELSE IF tagName = <<"i","m","g">>
     THEN IF Truthy(alt) THEN alt
          ELSE IF Truthy(src)
          THEN IF Len(filename) > 0 THEN tagName \o <<"_">> \o filename ELSE default
          ELSE default
     ELSE IF tagName \in {<<"i","n","p","u","t">>, <<"s","e","l","e","c","t">>, <<"t","e","x","t","a","r","e","a">>}
     THEN IF Truthy(type) /\ type # <<"t","e","x","t">> THEN type \o <<"I","n","p","u","t">>
          ELSE IF Truthy(value) /\ Len(value) > 0 /\ Len(value) < 20
          THEN tagName \o <<"_">> \o sanitizeKey(value)
          ELSE default
     ELSE IF tagName = <<"b","u","t","t","o","n">>
     THEN IF Truthy(value) /\ Len(value) > 0 /\ Len(value) < 20 THEN value
          ELSE IF Truthy(type) /\ type # <<"b","u","t","t","o","n">> THEN type \o <<"B","u","t","t","o","n">>
          ELSE default
     ELSE default

\* generatePropertyName with the placeholder consulted before the name attribute
generatePropertyNamePlaceholderFirst(elementType, tagName, textContent, ariaLabel, placeholder, nameAttr, id, attributes, index) ==
  LET name ==
        IF Truthy(ariaLabel) /\ Len(ariaLabel) > 0 /\ Len(ariaLabel) < 50 THEN ariaLabel
        ELSE IF Truthy(placeholder) THEN placeholder
        ELSE IF Truthy(nameAttr) THEN nameAttr
        ELSE IF Truthy(textContent) /\ Len(textContent) > 0 /\ Len(textContent) < 50
        THEN textContent
        ELSE IF Truthy(id) THEN id
        ELSE generateFallbackName(elementType, tagName, attributes, index)
  IN OrElse(toCamelCase(name), <<"e","l","e","m","e","n","t">> \o Str(index))

generatePropertyName(elementType, tagName, textContent, ariaLabel, placeholder, nameAttr, id, attributes, index) ==
  LET name ==
        IF Truthy(ariaLabel) /\ Len(ariaLabel) > 0 /\ Len(ariaLabel) < 50 THEN ariaLabel
        ELSE IF Truthy(nameAttr) THEN nameAttr
        ELSE IF Truthy(placeholder) THEN placeholder
        ELSE IF Truthy(textContent) /\ Len(textContent) > 0 /\ Len(textContent) < 50
        THEN textContent
        ELSE IF Truthy(id) THEN id
        ELSE generateFallbackName(elementType, tagName, attributes, index)
  IN OrElse(toCamelCase(name), <<"e","l","e","m","e","n","t">> \o Str(index))

\* element.getAttribute(key) || ''
GetAttributeOrEmpty(node, key) == OrElse(Attr(node.attributes, key), <<>>)

\* extractElementInfo for a node that answers every driver call
extractElementInfo(node, index) ==
  LET tagName        == OrElse(ToLowerCase(node.tagName), <<"u","n","k","n","o","w","n">>)
      role           == GetAttributeOrEmpty(node, "role")
      textContent    == OrElse(Trim(node.textContent), <<>>)
      id             == GetAttributeOrEmpty(node, "id")
      className      == GetAttributeOrEmpty(node, "class")
      nameAttr       == GetAttributeOrEmpty(node, "name")
      placeholder    == GetAttributeOrEmpty(node, "placeholder")
      ariaLabel      == GetAttributeOrEmpty(node, "aria-label")
      ariaLabelledby == GetAttributeOrEmpty(node, "aria-labelledby")
      attributes     == node.attributes
      elementType    == getElementType(tagName, role, OrElse(Attr(attributes, "type"), <<>>))
      elementSelector == generateSelector(tagName, role, textContent, ariaLabel,
                                          placeholder, attributes, index)
      propertyName   == generatePropertyName(elementType, tagName, textContent, ariaLabel,
                                             placeholder, nameAttr, id, attributes, index)
  IN [name            |-> propertyName,
      type            |-> elementType,
      selector        |-> elementSelector,
      tagName         |-> tagName,
      textContent     |-> textContent,
      id              |-> id,
      className       |-> className,
      role            |-> role,
      nameAttr        |-> nameAttr,
      placeholder     |-> placeholder,
      ariaLabel       |-> ariaLabel,
      ariaLabelledby  |-> ariaLabelledby,
      attributes      |-> attributes,
      propertyName    |-> propertyName,
      key             |-> elementSelector.key,
      index           |-> index]

-----------------------------------------------------------------------------
(* PageObjectGenerator.ts: generatePageObject.  A text is the sequence of its
   lines (its split at the line feeds); the strings interpolated here hold no
   line feed. *)

\* parts.join(sep) for texts: gap is <<>> for '\n' and << <<>> >> for '\n\n';
\* no part at all joins to the empty string, a text of one empty line
RECURSIVE JoinTexts(_, _)
JoinTexts(parts, gap) ==
  IF parts = <<>> THEN << <<>> >>
  ELSE IF Len(parts) = 1 THEN parts[1]
  ELSE parts[1] \o gap \o JoinTexts(Tail(parts), gap)

\* type.charAt(0).toUpperCase() + type.slice(1)
Capitalize(type) == IF type = <<>> THEN <<>> ELSE <<UpperChar(Head(type))>> \o Tail(type)

generateHelperMethods(pageUrl) ==
  << <<" "," "," "," ","/","*","*">>,
     <<" "," "," "," "," ","*"," ","N","a","v","i","g","a","t","e","s"," ","t","o"," ","t","h","e"," ","p","a","g","e"," ","U","R","L"," ","a","n","d"," ","w","a","i","t","s"," ","f","o","r"," ","i","t"," ","t","o"," ","l","o","a","d">>,
     <<" "," "," "," "," ","*"," ","@","p","a","r","a","m"," ","u","r","l"," ","O","p","t","i","o","n","a","l"," ","U","R","L"," ","t","o"," ","n","a","v","i","g","a","t","e"," ","t","o"," ","(","d","e","f","a","u","l","t","s"," ","t","o"," ","c","u","r","r","e","n","t"," ","p","a","g","e"," ","U","R","L",")">>,
     <<" "," "," "," "," ","*"," ","@","p","a","r","a","m"," ","t","i","m","e","o","u","t"," ","M","a","x","i","m","u","m"," ","t","i","m","e"," ","t","o"," ","w","a","i","t"," ","i","n"," ","m","i","l","l","i","s","e","c","o","n","d","s"," ","(","d","e","f","a","u","l","t",":"," ","3","0"," ","s","e","c","o","n","d","s",")">>,
     <<" "," "," "," "," ","*","/">>,
     <<" "," "," "," ","a","s","y","n","c"," ","g","o","t","o","(","u","r","l","?",":"," ","s","t","r","i","n","g",","," ","t","i","m","e","o","u","t"," ","="," ","3","0","0","0","0",")"," ","{">>,
     <<" "," "," "," "," "," "," "," ","a","w","a","i","t"," ","t","h","i","s",".","p","a","g","e",".","g","o","t","o","(","u","r","l"," ","|","|"," ","'">> \o pageUrl \o <<"'",")",";">>,
     <<" "," "," "," "," "," "," "," ","a","w","a","i","t"," ","t","h","i","s",".","p","a","g","e",".","w","a","i","t","F","o","r","L","o","a","d","S","t","a","t","e","(","'","n","e","t","w","o","r","k","i","d","l","e","'",","," ","{"," ","t","i","m","e","o","u","t"," ","}",")",";">>,
     <<" "," "," "," ","}">>,
     <<>>,
     <<"}">> >>

\* the field declaration of one element, after its comment line
FieldDeclaration(el) == <<" "," "," "," ","r","e","a","d","o","n","l","y"," ">> \o el.propertyName \o <<":"," ","L","o","c","a","t","o","r",";">>

\* ConstructorInitializer with the name of the element as extracted, el.name,
\* in place of its unique propertyName
ConstructorInitializerByName(el) ==
  <<" "," "," "," "," "," "," "," ","t","h","i","s",".">> \o el.name \o <<" ","="," ","t","h","i","s",".","p","a","g","e",".">> \o el.selector.selector \o <<";">>

\* the constructor line of one element
ConstructorInitializer(el) ==
  <<" "," "," "," "," "," "," "," ","t","h","i","s",".">> \o el.propertyName \o <<" ","="," ","t","h","i","s",".","p","a","g","e",".">> \o el.selector.selector \o <<";">>

\* the header line of the fields of one type
TypeHeader(type) == <<" "," "," "," ","/","/"," ">> \o Capitalize(type) \o <<" ","E","l","e","m","e","n","t","s">>

\* the text generatePageObject returns for the elements extracted
generatePageObject(className, userConfig, elements, pageUrl) ==
  LET includeHelpers == IF "includeHelpers" \in DOMAIN userConfig
                        THEN userConfig.includeHelpers ELSE TRUE
      grouped == groupBy(elements, [k \in DOMAIN elements |-> elements[k].type])
      elementProps(typeElements) ==
        JoinTexts([k \in DOMAIN typeElements |->
                     << <<" "," "," "," ","/","*","*"," ","L","o","c","a","t","o","r"," ","f","o","r"," ">>
                          \o OrElse(typeElements[k].name, <<"u","n","n","a","m","e","d">>) \o <<" ">>
                          \o typeElements[k].type \o <<" ","*","/">>,
                        FieldDeclaration(typeElements[k]) >>],
                  << <<>> >>)
      properties ==
        JoinTexts([g \in DOMAIN grouped |->
                     <<TypeHeader(grouped[g].key)>> \o elementProps(grouped[g].group)],
                  << <<>> >>)
      constructorInitializers ==
        JoinTexts([k \in DOMAIN elements |-> <<ConstructorInitializer(elements[k])>>], <<>>)
      helpers == IF includeHelpers THEN generateHelperMethods(pageUrl) ELSE <<>>
  IN << <<"i","m","p","o","r","t"," ","{"," ","P","a","g","e",","," ","L","o","c","a","t","o","r"," ","}"," ","f","r","o","m"," ","'","@","p","l","a","y","w","r","i","g","h","t","/","t","e","s","t","'",";">>,
        <<>>,
        <<"/","*","*">>,
        <<" ","*"," ","A","u","t","o","-","g","e","n","e","r","a","t","e","d"," ","P","a","g","e"," ","O","b","j","e","c","t"," ","f","o","r"," ">> \o className,
        <<" ","*"," ","G","e","n","e","r","a","t","e","d"," ","b","y"," ","P","a","g","e","O","b","j","e","c","t","G","e","n","e","r","a","t","o","r">>,
        <<" ","*"," ","@","c","l","a","s","s"," ">> \o className,
        <<" ","*","/">>,
        <<"e","x","p","o","r","t"," ","c","l","a","s","s"," ">> \o className \o <<" ","{">>,
        <<" "," "," "," ","p","r","i","v","a","t","e"," ","r","e","a","d","o","n","l","y"," ","p","a","g","e",":"," ","P","a","g","e",";">>,
        <<>> >>
     \o properties
     \o << <<>>,
           <<" "," "," "," ","/","*","*">>,
           <<" "," "," "," "," ","*"," ","C","r","e","a","t","e","s"," ","a"," ","n","e","w"," ","i","n","s","t","a","n","c","e"," ","o","f"," ">> \o className,
           <<" "," "," "," "," ","*"," ","@","p","a","r","a","m"," ","p","a","g","e"," ","P","l","a","y","w","r","i","g","h","t"," ","P","a","g","e"," ","i","n","s","t","a","n","c","e">>,
           <<" "," "," "," "," ","*","/">>,
           <<" "," "," "," ","c","o","n","s","t","r","u","c","t","o","r","(","p","a","g","e",":"," ","P","a","g","e",")"," ","{">>,
           <<" "," "," "," "," "," "," "," ","t","h","i","s",".","p","a","g","e"," ","="," ","p","a","g","e",";">> >>
     \o constructorInitializers
     \o << <<" "," "," "," ","}">>,
           <<>> >>
     \o JoinTexts([k \in DOMAIN helpers |-> <<helpers[k]>>], <<>>)

-----------------------------------------------------------------------------
(* filters.ts *)

\* DuplicateElementFilter.filter keeping the last element of each group
DuplicateElementFilterLast(elements) ==
  LET grouped == groupBy(elements, [k \in DOMAIN elements |-> elements[k].selector.selector])
  IN [g \in DOMAIN grouped |-> grouped[g].group[Len(grouped[g].group)]]

\* DuplicateElementFilter.filter
DuplicateElementFilter(elements) ==
  LET grouped == groupBy(elements, [k \in DOMAIN elements |-> elements[k].selector.selector])
      firsts  == [g \in DOMAIN grouped |->
                    IF grouped[g].group = <<>> THEN UndefinedElement ELSE grouped[g].group[1]]
  IN SelectSeq(firsts, LAMBDA el : el # UndefinedElement)

\* HiddenElementKeep without the test of aria-hidden
HiddenElementKeepNoAria(element) ==
  LET attributes == element.attributes
      style      == Attr(attributes, "style")
      className  == OrElse(element.className, <<>>)
  IN ~ \/ Attr(attributes, "hidden") = <<>>
       \/ OptIncludes(style, <<"d","i","s","p","l","a","y",":"," ","n","o","n","e">>)
       \/ OptIncludes(style, <<"v","i","s","i","b","i","l","i","t","y",":"," ","h","i","d","d","e","n">>)
       \/ OptIncludes(style, <<"o","p","a","c","i","t","y",":"," ","0">>)
       \/ Includes(className, <<"h","i","d","d","e","n">>)
       \/ Includes(className, <<"i","n","v","i","s","i","b","l","e">>)
       \/ Includes(className, <<"s","r","-","o","n","l","y">>)
       \/ Includes(className, <<"v","i","s","u","a","l","l","y","-","h","i","d","d","e","n">>)
       \/ Attr(attributes, "width") = <<"0">>
       \/ Attr(attributes, "height") = <<"0">>
       \/ OptIncludes(style, <<"w","i","d","t","h",":"," ","0">>)
       \/ OptIncludes(style, <<"h","e","i","g","h","t",":"," ","0">>)
       \/ element.tagName \in {<<"s","c","r","i","p","t">>, <<"s","t","y","l","e">>, <<"n","o","s","c","r","i","p","t">>, <<"m","e","t","a">>,
                               <<"l","i","n","k">>, <<"t","i","t","l","e">>, <<"h","e","a","d">>}

\* the predicate of HiddenElementFilter.filter: TRUE when the element is kept
HiddenElementKeep(element) ==
  LET attributes == element.attributes
      style      == Attr(attributes, "style")
      className  == OrElse(element.className, <<>>)
  IN ~ \/ Attr(attributes, "hidden") = <<>>
       \/ Attr(attributes, "aria-hidden") = <<"t","r","u","e">>
       \/ OptIncludes(style, <<"d","i","s","p","l","a","y",":"," ","n","o","n","e">>)
       \/ OptIncludes(style, <<"v","i","s","i","b","i","l","i","t","y",":"," ","h","i","d","d","e","n">>)
       \/ OptIncludes(style, <<"o","p","a","c","i","t","y",":"," ","0">>)
       \/ Includes(className, <<"h","i","d","d","e","n">>)
       \/ Includes(className, <<"i","n","v","i","s","i","b","l","e">>)
       \/ Includes(className, <<"s","r","-","o","n","l","y">>)
       \/ Includes(className, <<"v","i","s","u","a","l","l","y","-","h","i","d","d","e","n">>)
       \/ Attr(attributes, "width") = <<"0">>
       \/ Attr(attributes, "height") = <<"0">>
       \/ OptIncludes(style, <<"w","i","d","t","h",":"," ","0">>)
       \/ OptIncludes(style, <<"h","e","i","g","h","t",":"," ","0">>)
       \/ element.tagName \in {<<"s","c","r","i","p","t">>, <<"s","t","y","l","e">>, <<"n","o","s","c","r","i","p","t">>, <<"m","e","t","a">>,
                               <<"l","i","n","k">>, <<"t","i","t","l","e">>, <<"h","e","a","d">>}

\* HiddenElementFilter.filter
HiddenElementFilter(elements) == SelectSeq(elements, HiddenElementKeep)

\* the regular expression /[A-Z][a-z]/ tested on text
HasUpperLower(text) ==
  \E k \in 1..(Len(text) - 1) : IsUpper(text[k]) /\ IsLower(text[k + 1])

\* (text.match(/[^a-zA-Z0-9\s]/g) || []).length
SpecialCharCount(text) ==
  Len(SelectSeq(text, LAMBDA c : ~(IsUpper(c) \/ IsLower(c) \/ IsDigit(c) \/ IsSpace(c))))

isMeaningfulText(text) ==
  LET trimmed == Trim(text)
  IN ~ \/ Len(trimmed) < 2
       \/ (Includes(trimmed, <<"{">>) /\ Includes(trimmed, <<"}">>))
       \/ (Includes(trimmed, <<";">>) /\ Includes(trimmed, <<":">>))
       \/ StartsWith(trimmed, <<".">>)
       \/ StartsWith(trimmed, <<"#">>)
       \/ Includes(trimmed, <<"f","u","n","c","t","i","o","n","(">>)
       \/ Includes(trimmed, <<"v","a","r"," ">>)
       \/ Includes(trimmed, <<"d","o","c","u","m","e","n","t",".">>)
       \/ Includes(trimmed, <<"w","i","n","d","o","w",".">>)
       \/ Len(trimmed) > 80
       \/ (Len(trimmed) > 30 /\ ~Includes(trimmed, <<" ">>) /\ HasUpperLower(trimmed))
       \* specialCharRatio > 0.7
       \/ 10 * SpecialCharCount(trimmed) > 7 * Len(trimmed)

hasInteractiveAttributes(element) ==
  \/ Truthy(Attr(element.attributes, "onclick"))
  \/ Truthy(Attr(element.attributes, "onfocus"))
  \/ Truthy(Attr(element.attributes, "onblur"))
  \/ Truthy(Attr(element.attributes, "onmouseover"))
  \/ Truthy(Attr(element.attributes, "onmouseenter"))
  \/ Truthy(Attr(element.attributes, "tabindex"))
  \/ Attr(element.attributes, "role") \in {<<"b","u","t","t","o","n">>, <<"l","i","n","k">>, <<"t","a","b">>, <<"m","e","n","u","i","t","e","m">>}

isInteractiveElement(element) ==
  \/ element.type \in {<<"b","u","t","t","o","n">>, <<"l","i","n","k">>, <<"i","n","p","u","t">>, <<"s","e","l","e","c","t">>, <<"t","e","x","t","a","r","e","a">>, <<"t","a","b">>}
  \/ hasInteractiveAttributes(element)
  \/ Truthy(Attr(element.attributes, "onclick"))
  \/ Truthy(Attr(element.attributes, "onfocus"))
  \/ Truthy(Attr(element.attributes, "tabindex"))

\* the predicate of MeaningfulContentFilter.filter: TRUE when the element is kept
MeaningfulContentKeep(element) ==
  ~ \/ /\ ~Truthy(element.textContent)
       /\ ~Truthy(element.ariaLabel)
       /\ ~Truthy(element.placeholder)
       /\ ~Truthy(element.id)
       /\ ~Truthy(element.nameAttr)
    \/ /\ element.tagName = <<"d","i","v">>
       /\ element.type = <<"t","e","x","t">>
       /\ Len(element.textContent) > 200
    \/ (Truthy(element.textContent) /\ ~isMeaningfulText(element.textContent))
    \/ /\ Includes(element.selector.selector, <<".","n","t","h","(">>)
       /\ ~Truthy(element.id)
       /\ ~Truthy(element.ariaLabel)
       /\ ~Truthy(element.textContent)
    \/ /\ Truthy(element.textContent)
       /\ Len(element.textContent) > 50
       /\ ~isInteractiveElement(element)
    \/ /\ element.type = <<"t","e","x","t">>
       /\ ~hasInteractiveAttributes(element)
       /\ Len(element.textContent) > 30

\* MeaningfulContentFilter.filter
MeaningfulContentFilter(elements) == SelectSeq(elements, MeaningfulContentKeep)

\* VisibilityFilter.filter: the synchronous transform keeps everything
VisibilityFilterSync(elements) == elements

\* filter.filter(elements) of the stage called name: the built-in stages, and
\* three stages of a caller: SkipFirstFilter drops the first element,
\* SkipLastFilter keeps the set, DisabledFilter empties it
ApplyFilter(name, elements) ==
  CASE name = "DuplicateElementFilter"  -> DuplicateElementFilter(elements)
    [] name = "HiddenElementFilter"     -> HiddenElementFilter(elements)
    [] name = "MeaningfulContentFilter" -> MeaningfulContentFilter(elements)
    [] name = "VisibilityFilter"        -> VisibilityFilterSync(elements)
    [] name = "SkipFirstFilter"         -> IF elements = <<>> THEN <<>> ELSE Tail(elements)
    [] name = "SkipLastFilter"          -> elements
    [] name = "DisabledFilter"          -> <<>>

\* what filter.filterAsync(elements, page) resolves with when it issues no
\* driver call: VisibilityFilter on no elements, and the stages of a caller
\* (SkipLastFilter drops the last element, DisabledFilter empties the set)
ApplyFilterAsync(name, elements) ==
  CASE name = "VisibilityFilter" -> <<>>
    [] name = "SkipLastFilter"   -> IF elements = <<>> THEN <<>>
                                    ELSE SubSeq(elements, 1, Len(elements) - 1)
    [] name = "DisabledFilter"   -> <<>>

\* the invocations of filter.filter the first loop over elementFilters makes
\* from stage k on, each with the set it is called on
RECURSIVE SyncTrace(_, _, _)
SyncTrace(filters, k, elements) ==
  IF k > Len(filters) THEN <<>>
  ELSE IF filters[k].enabled
       THEN << [stage |-> filters[k].name, transform |-> "filter", input |-> elements] >>
              \o SyncTrace(filters, k + 1, ApplyFilter(filters[k].name, elements))
       ELSE SyncTrace(filters, k + 1, elements)

\* the first loop over mergedConfig.elementFilters, from stage k on
RECURSIVE ApplySyncFilters(_, _, _)
ApplySyncFilters(filters, k, elements) ==
  IF k > Len(filters) THEN elements
  ELSE ApplySyncFilters(filters, k + 1,
                        IF filters[k].enabled THEN ApplyFilter(filters[k].name, elements)
                        ELSE elements)

-----------------------------------------------------------------------------
(* selectors.ts *)

\* one simple selector of the combined query: a tag name, [attr] or [attr="value"]
TagSelector(tag) == [tag |-> tag, attr |-> "", value |-> Undefined]

AttrSelector(attr) == [tag |-> Undefined, attr |-> attr, value |-> Undefined]

RoleSelector(role) == [tag |-> Undefined, attr |-> "role", value |-> role]

\* input[type="..."]
InputTypeSelector(type) == [tag |-> <<"i","n","p","u","t">>, attr |-> "type", value |-> type]

\* the selector list buildSelectorString joins, each entry under containerSelector
buildSelectorString(cfg) ==
  IF Len(cfg.includeSelectors) > 0 THEN cfg.includeSelectors
  ELSE IF cfg.interactiveOnly
  THEN << TagSelector(<<"b","u","t","t","o","n">>), TagSelector(<<"a">>), TagSelector(<<"i","n","p","u","t">>),
          TagSelector(<<"s","e","l","e","c","t">>), TagSelector(<<"t","e","x","t","a","r","e","a">>),
          RoleSelector(<<"b","u","t","t","o","n">>), RoleSelector(<<"l","i","n","k">>), RoleSelector(<<"t","a","b">>),
          RoleSelector(<<"m","e","n","u","i","t","e","m">>), RoleSelector(<<"c","o","m","b","o","b","o","x">>),
          RoleSelector(<<"l","i","s","t","b","o","x">>), RoleSelector(<<"c","h","e","c","k","b","o","x">>),
          RoleSelector(<<"r","a","d","i","o">>),
          AttrSelector("onclick"), AttrSelector("onfocus"), AttrSelector("onblur"),
          AttrSelector("tabindex"), AttrSelector("data-testid"),
          TagSelector(<<"l","a","b","e","l">>) >>
  ELSE << AttrSelector("role"),
          TagSelector(<<"b","u","t","t","o","n">>), TagSelector(<<"a">>), TagSelector(<<"i","n","p","u","t">>),
          TagSelector(<<"s","e","l","e","c","t">>), TagSelector(<<"t","e","x","t","a","r","e","a">>), TagSelector(<<"i","m","g">>),
          TagSelector(<<"h","1">>), TagSelector(<<"h","2">>), TagSelector(<<"h","3">>),
          TagSelector(<<"h","4">>), TagSelector(<<"h","5">>), TagSelector(<<"h","6">>),
          TagSelector(<<"l","a","b","e","l">>), TagSelector(<<"p">>), TagSelector(<<"s","p","a","n">>),
          TagSelector(<<"d","i","v">>), TagSelector(<<"s","e","c","t","i","o","n">>), TagSelector(<<"a","r","t","i","c","l","e">>),
          TagSelector(<<"m","a","i","n">>), TagSelector(<<"a","s","i","d","e">>), TagSelector(<<"h","e","a","d","e","r">>),
          TagSelector(<<"f","o","o","t","e","r">>), TagSelector(<<"n","a","v">>) >>

\* whether a node of the document matches one simple selector
MatchesSelector(node, sel) ==
  /\ sel.tag = Undefined \/ ToLowerCase(node.tagName) = sel.tag
  /\ \/ sel.attr = ""
     \/ /\ sel.attr \in DOMAIN node.attributes
        /\ (sel.value = Undefined \/ node.attributes[sel.attr] = sel.value)

\* page.locator(selector).all(): the matching nodes in document order
LocatorAll(document, selector) ==
  SelectSeq(document,
            LAMBDA node : \E s \in DOMAIN selector : MatchesSelector(node, selector[s]))

-----------------------------------------------------------------------------
(* Configuration: constants.ts, mergeConfig, validateConfig *)

\* the table DEFAULT_ELEMENT_TYPES: each type with the selectors listed under it
DEFAULT_ELEMENT_TYPES ==
  << [type |-> <<"b","u","t","t","o","n">>,
      selectors |-> << TagSelector(<<"b","u","t","t","o","n">>), InputTypeSelector(<<"b","u","t","t","o","n">>),
                       InputTypeSelector(<<"s","u","b","m","i","t">>), InputTypeSelector(<<"r","e","s","e","t">>),
                       RoleSelector(<<"b","u","t","t","o","n">>) >>],
     [type |-> <<"l","i","n","k">>,
      selectors |-> << TagSelector(<<"a">>), RoleSelector(<<"l","i","n","k">>) >>],
     [type |-> <<"i","n","p","u","t">>,
      selectors |-> << InputTypeSelector(<<"t","e","x","t">>), InputTypeSelector(<<"e","m","a","i","l">>),
                       InputTypeSelector(<<"p","a","s","s","w","o","r","d">>), InputTypeSelector(<<"n","u","m","b","e","r">>),
                       InputTypeSelector(<<"t","e","l">>), InputTypeSelector(<<"u","r","l">>),
                       InputTypeSelector(<<"s","e","a","r","c","h">>) >>],
     [type |-> <<"c","h","e","c","k","b","o","x">>,
      selectors |-> << InputTypeSelector(<<"c","h","e","c","k","b","o","x">>), RoleSelector(<<"c","h","e","c","k","b","o","x">>) >>],
     [type |-> <<"r","a","d","i","o">>,
      selectors |-> << InputTypeSelector(<<"r","a","d","i","o">>), RoleSelector(<<"r","a","d","i","o">>) >>],
     [type |-> <<"s","e","l","e","c","t">>,
      selectors |-> << TagSelector(<<"s","e","l","e","c","t">>), RoleSelector(<<"c","o","m","b","o","b","o","x">>),
                       RoleSelector(<<"l","i","s","t","b","o","x">>) >>],
     [type |-> <<"t","e","x","t","a","r","e","a">>,
      selectors |-> << TagSelector(<<"t","e","x","t","a","r","e","a">>) >>],
     [type |-> <<"i","m","a","g","e">>,
      selectors |-> << TagSelector(<<"i","m","g">>), RoleSelector(<<"i","m","g">>) >>],
     [type |-> <<"h","e","a","d","i","n","g">>,
      selectors |-> << TagSelector(<<"h","1">>), TagSelector(<<"h","2">>), TagSelector(<<"h","3">>),
                       TagSelector(<<"h","4">>), TagSelector(<<"h","5">>), TagSelector(<<"h","6">>),
                       RoleSelector(<<"h","e","a","d","i","n","g">>) >>],
     [type |-> <<"l","a","b","e","l">>,
      selectors |-> << TagSelector(<<"l","a","b","e","l">>), RoleSelector(<<"l","a","b","e","l">>) >>],
     [type |-> <<"a","l","e","r","t">>,
      selectors |-> << RoleSelector(<<"a","l","e","r","t">>), RoleSelector(<<"s","t","a","t","u","s">>),
                       RoleSelector(<<"a","l","e","r","t","d","i","a","l","o","g">>) >>],
     [type |-> <<"d","i","a","l","o","g">>,
      selectors |-> << RoleSelector(<<"d","i","a","l","o","g">>), RoleSelector(<<"m","o","d","a","l">>) >>],
     [type |-> <<"t","a","b">>,
      selectors |-> << RoleSelector(<<"t","a","b">>), RoleSelector(<<"t","a","b","p","a","n","e","l">>) >>],
     [type |-> <<"n","a","v","i","g","a","t","i","o","n">>,
      selectors |-> << TagSelector(<<"n","a","v">>), RoleSelector(<<"n","a","v","i","g","a","t","i","o","n">>) >>],
     [type |-> <<"m","a","i","n">>,
      selectors |-> << TagSelector(<<"m","a","i","n">>), RoleSelector(<<"m","a","i","n">>) >>],
     [type |-> <<"a","s","i","d","e">>,
      selectors |-> << TagSelector(<<"a","s","i","d","e">>), RoleSelector(<<"c","o","m","p","l","e","m","e","n","t","a","r","y">>) >>],
     [type |-> <<"h","e","a","d","e","r">>,
      selectors |-> << TagSelector(<<"h","e","a","d","e","r">>), RoleSelector(<<"b","a","n","n","e","r">>) >>],
     [type |-> <<"f","o","o","t","e","r">>,
      selectors |-> << TagSelector(<<"f","o","o","t","e","r">>), RoleSelector(<<"c","o","n","t","e","n","t","i","n","f","o">>) >>],
     [type |-> <<"s","e","c","t","i","o","n">>,
      selectors |-> << TagSelector(<<"s","e","c","t","i","o","n">>), TagSelector(<<"a","r","t","i","c","l","e">>) >>],
     [type |-> <<"t","e","x","t">>,
      selectors |-> << TagSelector(<<"p">>), TagSelector(<<"s","p","a","n">>), TagSelector(<<"d","i","v">>) >>] >>

DEFAULT_CONFIG ==
  [containerSelector            |-> <<"b","o","d","y">>,
   includeHelpers               |-> TRUE,
   interactiveOnly              |-> TRUE,
   selectorPriorities           |-> <<"role", "testid", "label", "text", "id", "css">>,
   maxTextLength                |-> 100,
   includeHiddenElements        |-> FALSE,
   namingConvention             |-> "camelCase",
   enableRuntimeVisibilityCheck |-> FALSE]

\* { ...base, ...over }
Spread(base, over) ==
  [k \in DOMAIN base \cup DOMAIN over |-> IF k \in DOMAIN over THEN over[k] ELSE base[k]]

\* userConfig.enableRuntimeVisibilityCheck || false
VisibilityEnabled(userConfig) ==
  "enableRuntimeVisibilityCheck" \in DOMAIN userConfig
    /\ userConfig.enableRuntimeVisibilityCheck

\* the stages mergeConfig builds: a stage is its name, its enabled flag and
\* whether it has the optional filterAsync transform
BuiltInFilters(userConfig) ==
  << [name |-> "DuplicateElementFilter",  enabled |-> TRUE, hasAsync |-> FALSE],
     [name |-> "HiddenElementFilter",     enabled |-> TRUE, hasAsync |-> FALSE],
     [name |-> "MeaningfulContentFilter", enabled |-> TRUE, hasAsync |-> FALSE],
     [name |-> "VisibilityFilter", enabled |-> VisibilityEnabled(userConfig),
      hasAsync |-> TRUE] >>

\* userConfig.elementFilters || []
CallerFilters(userConfig) ==
  IF "elementFilters" \in DOMAIN userConfig THEN userConfig.elementFilters ELSE <<>>

\* elementFiltersOf with the caller's stages after the built-in ones
elementFiltersOfCallerLast(userConfig) ==
  BuiltInFilters(userConfig) \o CallerFilters(userConfig)

elementFiltersOf(userConfig) ==
  CallerFilters(userConfig) \o BuiltInFilters(userConfig)

mergeConfig(userConfig) ==
  Spread(Spread(DEFAULT_CONFIG, userConfig),
         [includeSelectors |-> IF "includeSelectors" \in DOMAIN userConfig
                               THEN userConfig.includeSelectors ELSE <<>>,
          elementFilters   |-> elementFiltersOf(userConfig)])

\* the messages of the 'error' results of validateConfig
validateConfig(cfg) ==
  (IF "maxTextLength" \in DOMAIN cfg /\ cfg.maxTextLength # 0 /\ cfg.maxTextLength < 1
   THEN <<"maxTextLength must be at least 1">> ELSE <<>>)
  \o
  (IF "selectorPriorities" \in DOMAIN cfg /\ Len(cfg.selectorPriorities) = 0
   THEN <<"selectorPriorities cannot be empty">> ELSE <<>>)

batchSize == 5

-----------------------------------------------------------------------------
(* The documents and configurations the model is run on *)

Node(tag, text, attrs) == [tagName |-> tag, textContent |-> text, attributes |-> attrs]

BtnSubmit == Node(<<"B","U","T","T","O","N">>, <<"S","u","b","m","i","t">>, ("id" :> <<"y">>) @@ ("data-testid" :> <<"x">>))

BtnSubmitAgain == Node(<<"B","U","T","T","O","N">>, <<" ","S","u","b","m","i","t"," ">>, ("id" :> <<"z">>))

AriaHiddenDiv ==
  Node(<<"D","I","V">>, <<"S","a","v","e">>,
       ("id" :> <<"u","1">>) @@ ("aria-hidden" :> <<"t","r","u","e">>) @@ ("tabindex" :> <<"0">>))

HiddenValueDiv ==
  Node(<<"D","I","V">>, <<"M","e","n","u">>,
       ("id" :> <<"m">>) @@ ("hidden" :> <<"h","i","d","d","e","n">>) @@ ("tabindex" :> <<"0">>))

HiddenEmptySpan == Node(<<"S","P","A","N">>, <<"T","i","p","s">>, ("hidden" :> <<>>) @@ ("tabindex" :> <<"0">>))

EmailInput == Node(<<"I","N","P","U","T">>, <<>>, ("type" :> <<"e","m","a","i","l">>) @@ ("aria-label" :> <<"E","m","a","i","l"," ","A","d","d","r","e","s","s">>))

HiddenClassLink == Node(<<"A">>, <<"H","o","m","e">>, ("href" :> <<"/">>) @@ ("class" :> <<"n","a","v"," ","h","i","d","d","e","n","-","x","s">>))

InputA == Node(<<"I","N","P","U","T">>, <<>>, ("name" :> <<"a">>) @@ ("placeholder" :> <<"p">>))

InputAAgain == Node(<<"I","N","P","U","T">>, <<>>, ("name" :> <<"a">>) @@ ("placeholder" :> <<"q">>))

InputA1 == Node(<<"I","N","P","U","T">>, <<>>, ("name" :> <<"a","1">>) @@ ("placeholder" :> <<"r">>))

TwitterLink == Node(<<"A">>, <<>>, ("href" :> <<"h","t","t","p","s",":","/","/","t","w","i","t","t","e","r",".","c","o","m","/","f","o","o">>))

NodePool == {BtnSubmit, BtnSubmitAgain, AriaHiddenDiv, HiddenValueDiv, HiddenEmptySpan,
             EmailInput, HiddenClassLink}

\* the nodes the long document repeats
LongCycle == <<InputA, InputA1, InputAAgain, BtnSubmit, AriaHiddenDiv, BtnSubmitAgain,
               InputA, HiddenValueDiv>>

LongDoc(n) == [k \in 1..n |-> LongCycle[((k - 1) % Len(LongCycle)) + 1]]

ShortDocs == UNION {[1..n -> NodePool] : n \in 0..MaxNodes}

LongDocs == {LongDoc(batchSize + MaxExtra)}

NoConfig == [containerSelector |-> <<"b","o","d","y">>]

ConfigPool ==
  {NoConfig,
   [maxTextLength |-> 0],
   [maxTextLength |-> -1],
   [selectorPriorities |-> <<>>],
   [includeHiddenElements |-> TRUE],
   [enableRuntimeVisibilityCheck |-> TRUE],
   [maxTextLength |-> 1, includeHiddenElements |-> FALSE],
   [includeHelpers |-> FALSE],
   [namingConvention |-> "snake_case"],
   [namingConvention |-> "kebab-case"]}

\* page.url()
PageUrl == <<"h","t","t","p","s",":","/","/","e","x","a","m","p","l","e",".","t","e","s","t","/","l","o","g","i","n">>

\* the class names generatePageObject is called with
ClassNames == {<<"L","o","g","i","n","P","a","g","e">>, <<"P">>}

\* stages a caller supplies in elementFilters: one with the synchronous
\* transform only, one with both transforms, one that is disabled
CallerStages ==
  << [name |-> "SkipFirstFilter", enabled |-> TRUE,  hasAsync |-> FALSE],
     [name |-> "SkipLastFilter",  enabled |-> TRUE,  hasAsync |-> TRUE],
     [name |-> "DisabledFilter",  enabled |-> FALSE, hasAsync |-> TRUE] >>

\* further runs: a configuration together with a document of a few nodes
Scenarios ==
  {[config |-> [enableRuntimeVisibilityCheck |-> TRUE],
    dom    |-> <<BtnSubmit, EmailInput, BtnSubmitAgain>>],
   [config |-> [includeHiddenElements |-> TRUE],
    dom    |-> <<HiddenClassLink, AriaHiddenDiv, BtnSubmit>>],
   [config |-> [includeHelpers |-> FALSE],
    dom    |-> <<InputA, BtnSubmit, InputAAgain>>],
   [config |-> [elementFilters |-> CallerStages, enableRuntimeVisibilityCheck |-> TRUE],
    dom    |-> <<BtnSubmit, EmailInput, BtnSubmitAgain>>],
   [config |-> [enableRuntimeVisibilityCheck |-> TRUE],
    dom    |-> <<InputA, BtnSubmit, InputA1>>],
   [config |-> NoConfig,
    dom    |-> <<TwitterLink>>],
   [config |-> NoConfig,
    dom    |-> <<InputA, InputAAgain, InputA1>>]}

\* a text of n characters
LongText(n) == [k \in 1..n |-> "x"]

\* single nodes that between them take every branch of generateSelector,
\* generatePropertyName and getElementType
ProbeNodes ==
  { BtnSubmit, EmailInput, InputA, HiddenClassLink,
    \* role with an accessible name
    Node(<<"D","I","V">>, <<>>, ("role" :> <<"b","u","t","t","o","n">>) @@ ("aria-label" :> <<"C","l","o","s","e">>)
                        @@ ("data-testid" :> <<"c","l","o","s","e">>) @@ ("id" :> <<"c","1">>)),
    Node(<<"L","I">>, <<"A","g","r","e","e">>, ("role" :> <<"c","h","e","c","k","b","o","x">>) @@ ("id" :> <<"a","g","r","e","e">>)),
    Node(<<"S","P","A","N">>, <<"N","a","m","e">>, ("role" :> <<"l","a","b","e","l">>) @@ ("tabindex" :> <<"0">>)),
    Node(<<"D","I","V">>, <<"N","e","w","s">>, ("role" :> <<"h","e","a","d","i","n","g">>)),
    Node(<<"D","I","V">>, <<"S","a","v","e","d">>, ("role" :> <<"s","t","a","t","u","s">>)),
    Node(<<"D","I","V">>, <<>>, ("role" :> <<"t","a","b">>) @@ ("id" :> <<"t","1">>)),
    \* form fields
    Node(<<"S","E","L","E","C","T">>, <<>>, ("aria-label" :> <<"C","o","u","n","t","r","y">>) @@ ("data-testid" :> <<"c","o","u","n","t","r","y">>)
                           @@ ("name" :> <<"c","o","u","n","t","r","y","_","c","o","d","e">>)),
    Node(<<"I","N","P","U","T">>, <<>>, ("placeholder" :> <<"S","e","a","r","c","h">>) @@ ("data-testid" :> <<"s">>)
                          @@ ("id" :> <<"q">>)),
    Node(<<"T","E","X","T","A","R","E","A">>, <<"H","i"," ","t","h","e","r","e">>, ("placeholder" :> <<"Y","o","u","r"," ","m","e","s","s","a","g","e">>)),
    Node(<<"I","N","P","U","T">>, <<>>, ("aria-label" :> LongText(50)) @@ ("name" :> <<"m","a","i","l">>)),
    Node(<<"I","N","P","U","T">>, <<>>, ("aria-label" :> LongText(49)) @@ ("name" :> <<"m","a","i","l">>)),
    Node(<<"I","N","P","U","T">>, <<>>, ("type" :> <<"c","h","e","c","k","b","o","x">>) @@ ("id" :> <<"r","e","m","e","m","b","e","r">>)),
    Node(<<"I","N","P","U","T">>, <<>>, ("type" :> <<"r","a","d","i","o">>)),
    Node(<<"I","N","P","U","T">>, <<>>, ("type" :> <<"t","e","x","t">>) @@ ("value" :> <<"J","o">>)),
    Node(<<"I","N","P","U","T">>, <<>>, ("type" :> <<"s","u","b","m","i","t">>) @@ ("value" :> <<"S","e","n","d">>)
                          @@ ("data-testid" :> <<"s","e","n","d">>)),
    Node(<<"I","N","P","U","T">>, <<>>, ("name" :> <<"q">>)),
    Node(<<"I","N","P","U","T">>, <<>>, <<>>),
    \* buttons, anchors, images
    Node(<<"B","U","T","T","O","N">>, <<>>, ("data-testid" :> <<"x">>) @@ ("id" :> <<"y">>)),
    Node(<<"B","U","T","T","O","N">>, <<>>, ("type" :> <<"s","u","b","m","i","t">>)),
    TwitterLink,
    Node(<<"A">>, <<>>, ("href" :> <<"h","t","t","p","s",":","/","/","w","w","w",".","e","x","a","m","p","l","e",".","c","o","m","/","a","b","o","u","t">>) @@ ("id" :> <<"a","b","o","u","t">>)),
    Node(<<"A">>, <<>>, ("href" :> <<"#">>) @@ ("data-testid" :> <<"t","o","p">>)),
    Node(<<"A">>, <<>>, ("href" :> <<"m","a","i","l","t","o",":","a","@","b",".","c">>) @@ ("name" :> <<"w","r","i","t","e">>)),
    Node(<<"I","M","G">>, <<>>, ("alt" :> <<"L","o","g","o">>) @@ ("src" :> <<"/","i","m","g","/","l","o","g","o",".","p","n","g">>)),
    Node(<<"I","M","G">>, <<>>, ("src" :> <<"/","i","m","g","/","h","e","r","o",".","p","n","g">>) @@ ("data-testid" :> <<"h","e","r","o">>)),
    \* text, test id, id, name, position
    Node(<<"D","I","V">>, <<"H","e","l","l","o">>, ("data-testid" :> <<"t">>) @@ ("id" :> <<"i">>)),
    Node(<<"D","I","V">>, LongText(99), ("data-testid" :> <<"l","o","n","g">>)),
    Node(<<"D","I","V">>, LongText(100), ("data-testid" :> <<"l","o","n","g">>)),
    Node(<<"D","I","V">>, <<>>, ("data-testid" :> <<"p","a","n","e","l">>) @@ ("id" :> <<"p","1">>)),
    Node(<<"D","I","V">>, <<>>, ("id" :> <<"o","n","l","y">>) @@ ("tabindex" :> <<"0">>)),
    Node(<<"D","I","V">>, <<>>, ("name" :> <<"n">>) @@ ("tabindex" :> <<"0">>)),
    Node(<<"D","I","V">>, <<>>, ("tabindex" :> <<"0">>)),
    Node(<<"D","I","V">>, LongText(50), ("id" :> <<"f","i","f","t","y">>) @@ ("onclick" :> <<"g","o","(",")">>)),
    \* data with a single quote
    Node(<<"B","U","T","T","O","N">>, <<"D","o","n","'","t"," ","s","a","v","e">>, ("id" :> <<"n","o">>)),
    Node(<<"D","I","V">>, <<>>, ("data-testid" :> <<"i","t","'","s">>) @@ ("tabindex" :> <<"0">>)),
    \* tags of the element-type table
    Node(<<"N","A","V">>, <<"M","a","i","n"," ","m","e","n","u">>, ("id" :> <<"n","a","v">>)),
    Node(<<"M","A","I","N">>, <<"W","e","l","c","o","m","e">>, <<>>),
    Node(<<"S","E","C","T","I","O","N">>, <<"P","r","i","c","i","n","g">>, <<>>),
    Node(<<"H","2">>, <<"T","i","t","l","e">>, <<>>),
    Node(<<"L","A","B","E","L">>, <<"P","a","s","s","w","o","r","d">>, <<>>),
    Node(<<"P">>, <<"S","o","m","e"," ","t","e","x","t">>, <<>>) }

\* the configurations the probe nodes are extracted under
ProbeConfigs ==
  {NoConfig,
   [interactiveOnly |-> FALSE],
   [interactiveOnly |-> FALSE, enableRuntimeVisibilityCheck |-> TRUE]}

-----------------------------------------------------------------------------
(* The call extractAccessibleElements(page, config) *)

\* before generatePageObject returned
NoPageObject == [className |-> <<>>, code |-> <<>>]

\* before any call returned
NoPrevious == [none |-> TRUE]

\* the number of the call under way
CallNumber == IF previous = NoPrevious THEN 1 ELSE 2

Pending == [status |-> "pending"]

Failure(reason) == [status |-> "failed", reason |-> reason]

Returned(value) == [status |-> "returned", value |-> value]

\* Promise.race of the outer executeWithTimeout: the first settlement wins
Settle(current, settlement) == IF current = Pending THEN settlement ELSE current

\* a promise that has not settled yet
Unsettled == [unsettled |-> TRUE]

\* a rejected promise, as opposed to one resolved with a value or with null
Rejected == [rejected |-> TRUE]

\* batchPromise without the try/catch around executeWithTimeout
batchPromiseNoCatch(how, node, globalIndex) ==
  IF how = "ok" THEN extractElementInfo(node, globalIndex) ELSE Rejected

\* what the promise of one batchPromises entry settles with: how is "ok",
\* "error" (a driver call threw) or "timeout" (the 5000 ms timer won the race)
batchPromise(how, node, globalIndex) ==
  IF how = "ok" THEN extractElementInfo(node, globalIndex) ELSE Null

\* batchResults.filter(element => element !== null)
validElements(results) == SelectSeq(results, LAMBDA element : element # Null)

\* the tasks batch.map starts for the batch at index start
NewBatch(handles, start) ==
  [k \in 1..(IF Len(handles) - start < batchSize THEN Len(handles) - start ELSE batchSize)
     |-> Unsettled]

Init ==
  /\ \/ (config \in ConfigPool /\ dom \in ShortDocs)
     \/ (config = NoConfig /\ dom \in LongDocs)
     \/ (\E s \in Scenarios : config = s.config /\ dom = s.dom)
  /\ pc = "Validating"
  /\ outcome = Pending
  /\ mergedConfig = mergeConfig(NoConfig)
  /\ elementHandles = <<>>
  /\ i = 0
  /\ batchResults = <<>>
  /\ elementDetails = <<>>
  /\ filteredElements = <<>>
  /\ asyncIndex = 0
  /\ visIndex = 0
  /\ visibleElements = <<>>
  /\ result = <<>>
  /\ running = {}
  /\ pageObject = NoPageObject
  /\ previous = NoPrevious
  /\ driverLog = {}
  /\ settled = <<>>
  /\ outOfOrder = FALSE
  /\ visInput = <<>>
  /\ visAnswers = <<>>
  /\ filterLog = <<>>

\* the start of a call on one of the scenarios
InitTwice ==
  /\ \E s \in Scenarios : config = s.config /\ dom = s.dom
  /\ pc = "Validating"
  /\ outcome = Pending
  /\ mergedConfig = mergeConfig(NoConfig)
  /\ elementHandles = <<>>
  /\ i = 0
  /\ batchResults = <<>>
  /\ elementDetails = <<>>
  /\ filteredElements = <<>>
  /\ asyncIndex = 0
  /\ visIndex = 0
  /\ visibleElements = <<>>
  /\ result = <<>>
  /\ running = {}
  /\ pageObject = NoPageObject
  /\ previous = NoPrevious
  /\ driverLog = {}
  /\ settled = <<>>
  /\ outOfOrder = FALSE
  /\ visInput = <<>>
  /\ visAnswers = <<>>
  /\ filterLog = <<>>

\* the start of a call on a document of one probe node
InitElements ==
  /\ config \in ProbeConfigs
  /\ \E node \in ProbeNodes : dom = <<node>>
  /\ pc = "Validating"
  /\ outcome = Pending
  /\ mergedConfig = mergeConfig(NoConfig)
  /\ elementHandles = <<>>
  /\ i = 0
  /\ batchResults = <<>>
  /\ elementDetails = <<>>
  /\ filteredElements = <<>>
  /\ asyncIndex = 0
  /\ visIndex = 0
  /\ visibleElements = <<>>
  /\ result = <<>>
  /\ running = {}
  /\ pageObject = NoPageObject
  /\ previous = NoPrevious
  /\ driverLog = {}
  /\ settled = <<>>
  /\ outOfOrder = FALSE
  /\ visInput = <<>>
  /\ visAnswers = <<>>
  /\ filterLog = <<>>

\* Validate with page.waitForLoadState started before the configuration is
\* validated
ValidateLate ==
  /\ pc = "Validating"
  /\ mergedConfig' = mergeConfig(config)
  /\ driverLog' = driverLog \cup {"waitForLoadState"}
  /\ IF validateConfig(config) # <<>>
     THEN /\ pc' = "Failed"
          /\ outcome' = Settle(outcome, Failure("Configuration validation failed"))
     ELSE /\ pc' = "WaitLoad"
          /\ UNCHANGED outcome
  /\ UNCHANGED <<config, dom, running, pageObject, previous, elementHandles, i, batchResults, elementDetails,
                 filteredElements, asyncIndex, visIndex, visibleElements, result,
                 history>>

\* mergeConfig, validateConfig, buildSelectorString and the start of
\* page.waitForLoadState: the synchronous start of the call
Validate ==
  /\ pc = "Validating"
  /\ mergedConfig' = mergeConfig(config)
  /\ IF validateConfig(config) # <<>>
     THEN /\ pc' = "Failed"
          /\ outcome' = Settle(outcome, Failure("Configuration validation failed"))
          /\ UNCHANGED driverLog
     ELSE /\ pc' = "WaitLoad"
          /\ driverLog' = driverLog \cup {"waitForLoadState"}
          /\ UNCHANGED outcome
  /\ UNCHANGED <<config, dom, running, pageObject, previous, elementHandles, i, batchResults, elementDetails,
                 filteredElements, asyncIndex, visIndex, visibleElements, result,
                 history>>

\* page.waitForLoadState answers, throws or times out (caught either way);
\* page.locator(selector).all() starts
LoadStateSettles ==
  /\ pc = "WaitLoad"
  /\ \E how \in {"ok", "error", "timeout"} :
       /\ pc' = "QueryingDOM"
       /\ driverLog' = driverLog \cup {"locator.all"}
  /\ UNCHANGED <<config, dom, running, pageObject, previous, outcome, mergedConfig, elementHandles, i, batchResults,
                 elementDetails, filteredElements, asyncIndex, visIndex,
                 visibleElements, result,
                 history>>

\* page.locator(selector).all() answers with the handles, or throws or times out
DomQuerySettles ==
  /\ pc = "QueryingDOM"
  /\ \E how \in {"ok", "error", "timeout"} :
       IF how = "ok"
       THEN /\ elementHandles' = LocatorAll(dom, buildSelectorString(mergedConfig))
            /\ settled' = [k \in DOMAIN elementHandles' |-> "none"]
            /\ pc' = "BatchLoop"
            /\ UNCHANGED outcome
       ELSE /\ pc' = "Failed"
            /\ outcome' = Settle(outcome, Failure("Element selection failed"))
            /\ UNCHANGED <<elementHandles, settled>>
  /\ UNCHANGED <<config, dom, running, pageObject, previous, mergedConfig, i, batchResults, elementDetails,
                 filteredElements, asyncIndex, visIndex, visibleElements, result,
                 driverLog, outOfOrder, visInput, visAnswers, filterLog>>

\* the head of the for loop over the batches: start the tasks of the next
\* batch, or leave the loop
BatchLoop ==
  /\ pc = "BatchLoop"
  /\ IF i < Len(elementHandles)
     THEN /\ batchResults' = NewBatch(elementHandles, i)
          /\ running' = running \cup {<<CallNumber, i + k>> : k \in DOMAIN batchResults'}
          /\ driverLog' = driverLog \cup {"element"}
          /\ pc' = "AwaitBatch"
     ELSE /\ pc' = "SyncFilters"
          /\ UNCHANGED <<batchResults, running, driverLog>>
  /\ UNCHANGED <<config, dom, pageObject, previous, outcome, mergedConfig, elementHandles, i, elementDetails,
                 filteredElements, asyncIndex, visIndex, visibleElements, result,
                 history>>

\* one task of the batch in flight settles, in any order: its operation
\* returned ("ok") or threw ("error"), or the 5000 ms timer won the race
\* ("timeout"), which settles the task and leaves the operation running
TaskSettles ==
  /\ pc = "AwaitBatch"
  /\ \E k \in DOMAIN batchResults, how \in {"ok", "error", "timeout"} :
       /\ batchResults[k] = Unsettled
       /\ settled' = [settled EXCEPT ![i + k] = how]
       /\ running' = IF how = "timeout" THEN running ELSE running \ {<<CallNumber, i + k>>}
       /\ outOfOrder' = (outOfOrder \/ \E j \in 1..(k - 1) : batchResults[j] = Unsettled)
       /\ LET value == batchPromise(how, elementHandles[i + k], i + k - 1)
          IN IF value = Rejected
             THEN \* Promise.all rejects with the first rejection
                  /\ pc' = "Failed"
                  /\ outcome' = Settle(outcome, Failure("Element processing failed"))
                  /\ UNCHANGED batchResults
             ELSE /\ batchResults' = [batchResults EXCEPT ![k] = value]
                  /\ UNCHANGED <<pc, outcome>>
  /\ UNCHANGED <<config, dom, pageObject, previous, mergedConfig, elementHandles, i, elementDetails,
                 filteredElements, asyncIndex, visIndex, visibleElements, result,
                 driverLog, visInput, visAnswers, filterLog>>

\* Promise.all(batchPromises) resolves: collect the batch
JoinBatch ==
  /\ pc = "AwaitBatch"
  /\ \A k \in DOMAIN batchResults : batchResults[k] # Unsettled
  /\ elementDetails' = elementDetails \o validElements(batchResults)
  /\ i' = i + batchSize
  /\ batchResults' = <<>>
  /\ pc' = "BatchLoop"
  /\ UNCHANGED <<config, dom, running, pageObject, previous, outcome, mergedConfig, elementHandles, filteredElements,
                 asyncIndex, visIndex, visibleElements, result, driverLog,
                 history>>

\* the first loop over elementFilters: every enabled synchronous transform
SyncFilters ==
  /\ pc = "SyncFilters"
  /\ filteredElements' = ApplySyncFilters(mergedConfig.elementFilters, 1, elementDetails)
  /\ filterLog' = SyncTrace(mergedConfig.elementFilters, 1, elementDetails)
  /\ asyncIndex' = 0
  /\ pc' = "AsyncFilters"
  /\ UNCHANGED <<config, dom, running, pageObject, previous, outcome, mergedConfig, elementHandles, i, batchResults,
                 elementDetails, visIndex, visibleElements, result, driverLog,
                 settled, outOfOrder, visInput, visAnswers>>

\* the head of the second loop over elementFilters: skip a stage without an
\* enabled filterAsync, enter VisibilityFilter.filterAsync, or leave the loop
AsyncFilters ==
  /\ pc = "AsyncFilters"
  /\ IF asyncIndex >= Len(mergedConfig.elementFilters)
     THEN /\ pc' = "Uniquifying"
          /\ UNCHANGED <<asyncIndex, visIndex, visibleElements, driverLog, visInput,
                         filteredElements, filterLog>>
     ELSE LET filter == mergedConfig.elementFilters[asyncIndex + 1]
          IN IF filter.enabled /\ filter.hasAsync
             THEN /\ filterLog' = Append(filterLog, [stage     |-> filter.name,
                                                      transform |-> "filterAsync",
                                                      input     |-> filteredElements])
                  /\ IF filter.name = "VisibilityFilter" /\ filteredElements # <<>>
                     THEN /\ visibleElements' = <<>>
                          /\ visInput' = filteredElements
                          /\ visIndex' = 0
                          /\ driverLog' = driverLog \cup {"isVisible"}
                          /\ pc' = "AwaitVisibility"
                          /\ UNCHANGED <<asyncIndex, filteredElements>>
                     ELSE /\ filteredElements' = ApplyFilterAsync(filter.name, filteredElements)
                          /\ asyncIndex' = asyncIndex + 1
                          /\ UNCHANGED <<pc, visIndex, visibleElements, driverLog, visInput>>
             ELSE /\ asyncIndex' = asyncIndex + 1
                  /\ UNCHANGED <<pc, visIndex, visibleElements, driverLog, visInput,
                                 filteredElements, filterLog>>
  /\ UNCHANGED <<config, dom, running, pageObject, previous, outcome, mergedConfig, elementHandles, i, batchResults,
                 elementDetails, result, settled, outOfOrder,
                 visAnswers>>

\* visibilityKeeps with a query that threw treated as not visible
visibilityKeepsOnlyVisible(answer) == answer = "visible"

\* whether VisibilityFilter.filterAsync keeps an element whose query answered
\* "visible" or "hidden" or threw ("error")
visibilityKeeps(answer) == answer = "visible" \/ answer = "error"

\* VisibilitySettles with a loop that, while elements remain, issues the next
\* two queries on one answer
VisibilitySettlesTwoAhead ==
  /\ pc = "AwaitVisibility"
  /\ \E answer \in {"visible", "hidden", "error"} :
       /\ visAnswers' = Append(visAnswers, answer)
       /\ LET kept == IF visibilityKeeps(answer)
                      THEN Append(visibleElements, filteredElements[visIndex + 1])
                      ELSE visibleElements
          IN IF visIndex + 2 < Len(filteredElements)
             THEN /\ visibleElements' = kept
                  /\ visIndex' = visIndex + 2
                  /\ UNCHANGED <<filteredElements, asyncIndex, pc>>
             ELSE /\ filteredElements' = kept
                  /\ visibleElements' = kept
                  /\ visIndex' = visIndex + 1
                  /\ asyncIndex' = asyncIndex + 1
                  /\ pc' = "AsyncFilters"
  /\ UNCHANGED <<config, dom, running, pageObject, previous, outcome, mergedConfig, elementHandles, i, batchResults,
                 elementDetails, result, driverLog, settled, outOfOrder,
                 visInput, filterLog>>

\* locator.isVisible() of the element at visIndex answers or throws; the loop
\* of filterAsync queries the next element or returns
VisibilitySettles ==
  /\ pc = "AwaitVisibility"
  /\ \E answer \in {"visible", "hidden", "error"} :
       /\ visAnswers' = Append(visAnswers, answer)
       /\ LET kept == IF visibilityKeeps(answer)
                      THEN Append(visibleElements, filteredElements[visIndex + 1])
                      ELSE visibleElements
          IN IF visIndex + 1 < Len(filteredElements)
             THEN /\ visibleElements' = kept
                  /\ visIndex' = visIndex + 1
                  /\ UNCHANGED <<filteredElements, asyncIndex, pc>>
             ELSE /\ filteredElements' = kept
                  /\ visibleElements' = kept
                  /\ visIndex' = visIndex + 1
                  /\ asyncIndex' = asyncIndex + 1
                  /\ pc' = "AsyncFilters"
  /\ UNCHANGED <<config, dom, running, pageObject, previous, outcome, mergedConfig, elementHandles, i, batchResults,
                 elementDetails, result, driverLog, settled, outOfOrder,
                 visInput, filterLog>>

\* return uniquifyPropertyNames(filteredElements)
Uniquify ==
  /\ pc = "Uniquifying"
  /\ result' = uniquifyPropertyNames(filteredElements)
  /\ outcome' = Settle(outcome, Returned(result'))
  /\ pc' = "Done"
  /\ UNCHANGED <<config, dom, running, pageObject, previous, mergedConfig, elementHandles, i, batchResults,
                 elementDetails, filteredElements, asyncIndex, visIndex,
                 visibleElements, driverLog,
                 history>>

\* OuterTimeout with a timer that is disarmed once the batches are collected
OuterTimeoutUntilFiltering ==
  /\ pc \in {"WaitLoad", "QueryingDOM", "AwaitBatch"}
  /\ outcome = Pending
  /\ outcome' = Failure("Element extraction timeout")
  /\ UNCHANGED <<config, dom, running, pageObject, previous, pc, mergedConfig, elementHandles, i, batchResults,
                 elementDetails, filteredElements, asyncIndex, visIndex,
                 visibleElements, result, driverLog,
                 history>>

\* the 60000 ms timer of extractAccessibleElements wins the race while the
\* internal call waits for the driver; the internal call goes on regardless
OuterTimeout ==
  /\ pc \in {"WaitLoad", "QueryingDOM", "AwaitBatch", "AwaitVisibility"}
  /\ outcome = Pending
  /\ outcome' = Failure("Element extraction timeout")
  /\ UNCHANGED <<config, dom, running, pageObject, previous, pc, mergedConfig, elementHandles, i, batchResults,
                 elementDetails, filteredElements, asyncIndex, visIndex,
                 visibleElements, result, driverLog,
                 history>>

\* generatePageObject, which awaits extractAccessibleElements, builds the class
\* text from the elements returned
PageObjectReturns ==
  /\ pc = "Done"
  /\ previous = NoPrevious
  /\ outcome.status = "returned"
  /\ \E className \in ClassNames :
       pageObject' = [className |-> className,
                      code      |-> generatePageObject(className, config, outcome.value,
                                                       PageUrl)]
  /\ pc' = "Generated"
  /\ UNCHANGED <<config, dom, outcome, mergedConfig, elementHandles, i, batchResults,
                 elementDetails, filteredElements, asyncIndex, visIndex,
                 visibleElements, result, running, previous, driverLog,
                 history>>

Next ==
  \/ Validate
  \/ LoadStateSettles
  \/ DomQuerySettles
  \/ BatchLoop
  \/ TaskSettles
  \/ JoinBatch
  \/ SyncFilters
  \/ AsyncFilters
  \/ VisibilitySettles
  \/ Uniquify
  \/ OuterTimeout
  \/ PageObjectReturns

Spec == Init /\ [][Next]_vars

\* an extractElementInfo operation abandoned by its timeout ends (nothing
\* cancels it or waits for it); its callback runs while the call is suspended
\* at an await, or after the call
AbandonedOperationEnds ==
  /\ pc \in {"AwaitBatch", "AwaitVisibility", "Done", "Failed", "Generated"}
  /\ \E op \in running :
       /\ op[1] < CallNumber \/ settled[op[2]] = "timeout"
       /\ running' = running \ {op}
  /\ UNCHANGED <<config, dom, pc, outcome, mergedConfig, elementHandles, i,
                 batchResults, elementDetails, filteredElements, asyncIndex, visIndex,
                 visibleElements, result, pageObject, previous, driverLog,
                 history>>

NextTasks ==
  \/ Next
  \/ AbandonedOperationEnds

\* the (type, selector expression) pairs of a collection of elements
TypeSelectorPairs(elements) ==
  {<<elements[k].type, elements[k].selector.selector>> : k \in DOMAIN elements}

\* generatePageObjectMetadata: once generatePageObject has returned, it calls
\* extractAccessibleElements again with the same page and configuration
ExtractAgain ==
  /\ pc = "Generated"
  /\ previous = NoPrevious
  /\ previous' = [pairs |-> TypeSelectorPairs(outcome.value)]
  /\ pc' = "Validating"
  /\ outcome' = Pending
  /\ mergedConfig' = mergeConfig(NoConfig)
  /\ elementHandles' = <<>>
  /\ i' = 0
  /\ batchResults' = <<>>
  /\ elementDetails' = <<>>
  /\ filteredElements' = <<>>
  /\ asyncIndex' = 0
  /\ visIndex' = 0
  /\ visibleElements' = <<>>
  /\ result' = <<>>
  /\ driverLog' = {}
  /\ settled' = <<>>
  /\ outOfOrder' = FALSE
  /\ visInput' = <<>>
  /\ visAnswers' = <<>>
  /\ filterLog' = <<>>
  /\ UNCHANGED <<config, dom, running, pageObject>>

NextTwice ==
  \/ Next
  \/ ExtractAgain

\* two calls in a row on the documents of the scenarios
SpecTwice == InitTwice /\ [][NextTwice]_vars

\* the call on the documents of one probe node
SpecElements == InitElements /\ [][Next]_vars

\* the call together with the ends of the operations it abandoned
SpecTasks == Init /\ [][NextTasks]_vars

\* the steps the event loop is bound to take: the synchronous continuations of
\* the call and the 60000 ms timer of the call itself; the answers of the
\* driver (page load, element selection, element processing, isVisible) are
\* not among them: a driver call may never return
EventLoopStep ==
  \/ Validate
  \/ BatchLoop
  \/ JoinBatch
  \/ SyncFilters
  \/ AsyncFilters
  \/ Uniquify
  \/ OuterTimeout

\* the call on the documents of the scenarios under an event loop that keeps
\* running
SpecLive == InitTwice /\ [][Next]_vars /\ WF_vars(EventLoopStep)

-----------------------------------------------------------------------------
(* Properties *)

\* the handle index of every element of a list, in list order
Indices(elements) == [k \in DOMAIN elements |-> elements[k].index]

StrictlyIncreasing(ns) == \A a, b \in DOMAIN ns : a < b => ns[a] < ns[b]

\* out consists of exactly the elements of in at the positions keep, in the
\* order of in (the elements of in are pairwise distinct: they differ in their
\* handle index)
IsSelection(out, in, keep) ==
  /\ StrictlyIncreasing(Indices(out))
  /\ \A k \in DOMAIN out : \E j \in DOMAIN in : in[j] = out[k]
  /\ \A j \in DOMAIN in : (\E k \in DOMAIN out : out[k] = in[j]) <=> j \in keep

SameSelector(a, b) == a.selector.selector = b.selector.selector

IncludeHiddenSet == "includeHiddenElements" \in DOMAIN config /\ config.includeHiddenElements

\* C1: the collection extractAccessibleElements returns never holds two
\* elements with the same propertyName.
C1_UniquePropertyNames ==
  outcome.status = "returned" =>
    \A a, b \in DOMAIN outcome.value :
      a # b => outcome.value[a].propertyName # outcome.value[b].propertyName

\* a returned collection built from two elements with the same raw name and a
\* third whose raw name is that name suffixed with 1
C1_Witness ==
  /\ outcome.status = "returned"
  /\ \E a, b, c \in DOMAIN filteredElements :
       /\ a # b
       /\ filteredElements[a].propertyName = filteredElements[b].propertyName
       /\ filteredElements[c].propertyName = filteredElements[a].propertyName \o <<"1">>

\* C2: DuplicateElementFilter.filter keeps exactly the first element of every
\* selector expression, in input order, and no two elements of an extraction
\* result share a selector expression.
C2_FirstPerSelector ==
  /\ IsSelection(DuplicateElementFilter(elementDetails), elementDetails,
                 {j \in DOMAIN elementDetails :
                    \A h \in 1..(j - 1) :
                      ~SameSelector(elementDetails[h], elementDetails[j])})
  /\ pc = "Done" =>
       \A a, b \in DOMAIN result : a # b => ~SameSelector(result[a], result[b])

\* two Submit buttons were extracted and the result holds the first one only
C2_Witness ==
  /\ pc = "Done"
  /\ \E a, b \in DOMAIN elementDetails :
       /\ a < b
       /\ elementDetails[a].textContent = <<"S","u","b","m","i","t">>
       /\ elementDetails[a].tagName = <<"b","u","t","t","o","n">>
       /\ elementDetails[b].tagName = <<"b","u","t","t","o","n">>
       /\ SameSelector(elementDetails[a], elementDetails[b])
       /\ \E r \in DOMAIN result : result[r].index = elementDetails[a].index
       /\ \A r \in DOMAIN result : result[r].index # elementDetails[b].index

\* C3: a task that times out or throws removes only its own element: the
\* elements collected are exactly those of the joined batches whose task
\* succeeded, and the call never fails once extraction has started, except by
\* the overall timeout.
C3_FailureIsLocal ==
  /\ StrictlyIncreasing(Indices(elementDetails))
  /\ {elementDetails[k].index : k \in DOMAIN elementDetails}
       = {k - 1 : k \in {j \in DOMAIN settled : j <= i /\ settled[j] = "ok"}}
  /\ pc = "Failed" => \A k \in DOMAIN settled : settled[k] = "none"
  /\ outcome.status = "failed" =>
       outcome.reason \in {"Configuration validation failed", "Element selection failed",
                           "Element extraction timeout"}

\* a call returned although a task of the first batch timed out and another
\* threw, with a successful task in that batch and one in the next
C3_Witness ==
  /\ outcome.status = "returned"
  /\ Len(settled) > batchSize
  /\ \E a, b, c \in 1..batchSize :
       settled[a] = "timeout" /\ settled[b] = "error" /\ settled[c] = "ok"
  /\ \E d \in DOMAIN settled : d > batchSize /\ settled[d] = "ok"
  /\ \E r \in DOMAIN elementDetails : elementDetails[r].index >= batchSize

\* C4: the returned collection is a subsequence of the discovered nodes in
\* discovery order, and so is every intermediate collection.
C4_DiscoveryOrder ==
  /\ StrictlyIncreasing(Indices(elementDetails))
  /\ StrictlyIncreasing(Indices(filteredElements))
  /\ pc = "Done" =>
       /\ StrictlyIncreasing(Indices(result))
       /\ \A r \in DOMAIN result :
            /\ result[r].index < Len(elementHandles)
            /\ result[r].attributes = elementHandles[result[r].index + 1].attributes

\* a result of two or more elements after tasks settled out of order, one task
\* failed and one extracted element was filtered out
C4_Witness ==
  /\ pc = "Done"
  /\ outOfOrder
  /\ Len(result) >= 2
  /\ \E k \in DOMAIN settled : settled[k] \in {"error", "timeout"}
  /\ Len(result) < Len(elementDetails)

\* C5: every configuration whose maxTextLength is smaller than 1 makes the
\* call fail with a configuration error.
C5_SmallMaxTextLengthRejected ==
  ("maxTextLength" \in DOMAIN config /\ config.maxTextLength < 1 /\ pc # "Validating")
    => outcome = Failure("Configuration validation failed")

\* C6: a call rejected by configuration validation has issued no driver call.
C6_NoDriverCallOnRejection ==
  outcome = Failure("Configuration validation failed") => driverLog = {}

\* a call rejected for its empty selectorPriorities list
C6_Witness ==
  /\ pc = "Failed"
  /\ outcome = Failure("Configuration validation failed")
  /\ "selectorPriorities" \in DOMAIN config
  /\ config.selectorPriorities = <<>>

\* C7: the visibility stage keeps exactly the elements whose query answered
\* visible or threw, drops those that answered not visible, and a query that
\* throws does not fail the call.
C7_VisibilityKeepsOnError ==
  visInput # <<>> =>
    /\ Len(visAnswers) <= Len(visInput)
    /\ IsSelection(visibleElements, SubSeq(visInput, 1, Len(visAnswers)),
                   {j \in DOMAIN visAnswers : visAnswers[j] \in {"visible", "error"}})
    /\ Len(visAnswers) = Len(visInput) => filteredElements = visibleElements
    /\ pc = "Done" => Indices(result) = Indices(visibleElements)
    /\ pc # "Failed"
    /\ outcome.status = "failed" => outcome.reason = "Element extraction timeout"

\* a call returned after one visibility query threw and another answered not
\* visible
C7_Witness ==
  /\ outcome.status = "returned"
  /\ \E a, b \in DOMAIN visAnswers : visAnswers[a] = "error" /\ visAnswers[b] = "hidden"
  /\ Len(result) = 1

\* C8: HiddenElementFilter drops every element that has a hidden attribute,
\* whatever its value.
C8_HiddenAttributeDropped ==
  \A k \in DOMAIN elementDetails :
    "hidden" \in DOMAIN elementDetails[k].attributes
      => \A r \in DOMAIN HiddenElementFilter(elementDetails) :
           HiddenElementFilter(elementDetails)[r].index # elementDetails[k].index

\* C9: when includeHiddenElements is left at false, no returned element has
\* aria-hidden equal to 'true'.
C9_NoAriaHiddenInResult ==
  (~IncludeHiddenSet /\ pc = "Done") =>
    \A r \in DOMAIN result : Attr(result[r].attributes, "aria-hidden") # <<"t","r","u","e">>

\* an extraction that read an aria-hidden element with text and an id of its own
C9_Witness ==
  /\ pc = "Done"
  /\ ~IncludeHiddenSet
  /\ result # <<>>
  /\ \E k \in DOMAIN elementDetails :
       /\ Attr(elementDetails[k].attributes, "aria-hidden") = <<"t","r","u","e">>
       /\ isMeaningfulText(elementDetails[k].textContent)
       /\ Truthy(elementDetails[k].id)
       /\ \A j \in DOMAIN elementDetails : j # k => elementDetails[j].id # elementDetails[k].id

\* C10: with includeHiddenElements set to true, an element with a hidden
\* marker that passes the other stages is in the result.
C10_IncludeHiddenKeepsHidden ==
  (IncludeHiddenSet /\ ~VisibilityEnabled(config) /\ pc = "Done") =>
    LET others == MeaningfulContentFilter(DuplicateElementFilter(elementDetails))
    IN \A k \in DOMAIN others :
         ~HiddenElementKeep(others[k])
           => \E r \in DOMAIN result : result[r].index = others[k].index

\* whether a name is written in a naming convention: camelCase has letters and
\* digits only and does not start with a capital, snake_case has lower-case
\* letters, digits and underscores, kebab-case lower-case letters, digits and
\* hyphens
InConvention(convention, name) ==
  /\ name # <<>>
  /\ CASE convention = "camelCase" ->
            (\A k \in DOMAIN name : name[k] \in AlnumChars) /\ ~IsUpper(name[1])
        [] convention = "snake_case" ->
            \A k \in DOMAIN name : IsLower(name[k]) \/ IsDigit(name[k]) \/ name[k] = "_"
        [] convention = "kebab-case" ->
            \A k \in DOMAIN name : IsLower(name[k]) \/ IsDigit(name[k]) \/ name[k] = "-"

\* C11: the propertyName of every returned element is written in the
\* configured namingConvention (camelCase when the configuration names none).
C11_NameInConfiguredConvention ==
  pc = "Done" =>
    \A r \in DOMAIN result :
      InConvention(mergedConfig.namingConvention, result[r].propertyName)

\* the rank of the first branch of the selector cascade that applies to an
\* extracted element: 1 role with a name, 2 label, 3 placeholder, 4 button,
\* 5 anchor, 6 image, 7 short text, 8 data-testid, 9 id, 10 name, 11 position
CascadeBranch(e) ==
  LET formField == e.tagName \in {<<"i","n","p","u","t">>, <<"s","e","l","e","c","t">>, <<"t","e","x","t","a","r","e","a">>}
      inputType == Attr(e.attributes, "type")
  IN IF e.role # <<>> /\ (e.ariaLabel # <<>> \/ e.textContent # <<>>) THEN 1
     ELSE IF formField /\ e.ariaLabel # <<>> THEN 2
     ELSE IF formField /\ e.placeholder # <<>> THEN 3
     ELSE IF \/ e.tagName = <<"b","u","t","t","o","n">>
             \/ (e.tagName = <<"i","n","p","u","t">>
                 /\ inputType \in {<<"b","u","t","t","o","n">>, <<"s","u","b","m","i","t">>, <<"r","e","s","e","t">>}) THEN 4
     ELSE IF e.tagName = <<"a">> THEN 5
     ELSE IF e.tagName = <<"i","m","g">> THEN 6
     ELSE IF Len(e.textContent) \in 1..99 THEN 7
     ELSE IF Truthy(Attr(e.attributes, "data-testid")) THEN 8
     ELSE IF Truthy(Attr(e.attributes, "id")) THEN 9
     ELSE IF Truthy(Attr(e.attributes, "name")) THEN 10
     ELSE 11

\* the Playwright call each branch of the cascade uses
BranchLocators(e) ==
  << {<<"g","e","t","B","y","R","o","l","e","(","'">> \o e.role \o <<"'",","," ","{"," ","n","a","m","e",":"," ","'">>},
     {<<"g","e","t","B","y","L","a","b","e","l","(","'">>},
     {<<"g","e","t","B","y","P","l","a","c","e","h","o","l","d","e","r","(","'">>},
     {<<"g","e","t","B","y","R","o","l","e","(","'","b","u","t","t","o","n","'">>},
     {<<"g","e","t","B","y","R","o","l","e","(","'","l","i","n","k","'",","," ","{"," ","n","a","m","e",":"," ","'">>, <<"l","o","c","a","t","o","r","(","'","a","[","h","r","e","f","=","\"">>, <<"l","o","c","a","t","o","r","(","'","a","'",")",".","n","t","h","(">>},
     {<<"g","e","t","B","y","A","l","t","T","e","x","t","(","'">>, <<"g","e","t","B","y","R","o","l","e","(","'","i","m","g","'",")">>},
     {<<"g","e","t","B","y","T","e","x","t","(","'">>},
     {<<"g","e","t","B","y","T","e","s","t","I","d","(","'">> \o Attr(e.attributes, "data-testid") \o <<"'",")">>},
     {<<"l","o","c","a","t","o","r","(","'","#">> \o Attr(e.attributes, "id") \o <<"'",")">>},
     {<<"l","o","c","a","t","o","r","(","'","[","n","a","m","e","=","\"">> \o Attr(e.attributes, "name") \o <<"\"","]","'",")">>},
     {<<"l","o","c","a","t","o","r","(","'">> \o e.tagName \o <<"'",")",".","n","t","h","(">>} >>

\* C12: the selector of every extracted element is the locator of the first
\* branch of the cascade that applies to it; in particular a data-testid
\* locator is used only when no earlier branch applies, an id locator only
\* when there is no data-testid either, and a button with text 'Submit', a
\* data-testid and an id gets the role locator named 'Submit'.
C12_FirstApplicableBranch ==
  \A k \in DOMAIN elementDetails :
    LET e == elementDetails[k]
    IN /\ \E prefix \in BranchLocators(e)[CascadeBranch(e)] :
            StartsWith(e.selector.selector, prefix)
       /\ StartsWith(e.selector.selector, <<"g","e","t","B","y","T","e","s","t","I","d","(">>) => CascadeBranch(e) = 8
       /\ StartsWith(e.selector.selector, <<"l","o","c","a","t","o","r","(","'","#">>) =>
            CascadeBranch(e) = 9 /\ ~Truthy(Attr(e.attributes, "data-testid"))
       /\ (e.tagName = <<"b","u","t","t","o","n">> /\ e.textContent = <<"S","u","b","m","i","t">> /\ e.role = <<>>)
            => e.selector.selector = <<"g","e","t","B","y","R","o","l","e","(","'","b","u","t","t","o","n","'",","," ","{"," ","n","a","m","e",":"," ","'","S","u","b","m","i","t","'"," ","}",")">>

\* the Submit button that has a data-testid and an id was extracted
C12_Witness ==
  \E k \in DOMAIN elementDetails :
    /\ elementDetails[k].tagName = <<"b","u","t","t","o","n">>
    /\ elementDetails[k].textContent = <<"S","u","b","m","i","t">>
    /\ Truthy(Attr(elementDetails[k].attributes, "data-testid"))
    /\ Truthy(Attr(elementDetails[k].attributes, "id"))
    /\ pc = "Done"

\* the types of the element-type table under which a node is listed
TableTypes(node) ==
  {DEFAULT_ELEMENT_TYPES[t].type :
     t \in {u \in DOMAIN DEFAULT_ELEMENT_TYPES :
              \E s \in DOMAIN DEFAULT_ELEMENT_TYPES[u].selectors :
                MatchesSelector(node, DEFAULT_ELEMENT_TYPES[u].selectors[s])}}

\* C13: an extracted element whose node is listed in the element-type table,
\* under one type only, has that type.
C13_TypeOfTableEntry ==
  \A k \in DOMAIN elementDetails :
    LET node == elementHandles[elementDetails[k].index + 1]
    IN Cardinality(TableTypes(node)) = 1 => elementDetails[k].type \in TableTypes(node)

\* the source generatePropertyName takes the raw name of an element from: the
\* first that applies of aria-label (1 to 49 characters), name, placeholder,
\* text (1 to 49 characters) and id; "fallback" when none does
NameSource(e) ==
  IF Len(e.ariaLabel) \in 1..49 THEN e.ariaLabel
  ELSE IF e.nameAttr # <<>> THEN e.nameAttr
  ELSE IF e.placeholder # <<>> THEN e.placeholder
  ELSE IF Len(e.textContent) \in 1..49 THEN e.textContent
  ELSE IF e.id # <<>> THEN e.id
  ELSE generateFallbackName(e.type, e.tagName, e.attributes, e.index)

IsBareSocialAnchor(e, d) ==
  /\ e.tagName = <<"a">>
  /\ e.textContent = <<>> /\ e.ariaLabel = <<>> /\ e.nameAttr = <<>>
  /\ e.placeholder = <<>> /\ e.id = <<>>
  /\ Truthy(Attr(e.attributes, "href"))
  /\ Includes(Attr(e.attributes, "href"), socialDomains[d][1])

\* C15: a text-less anchor to a social-media domain that was extracted, and
\* that neither the duplicate nor the hidden stage removes, is in the result
\* under the name mapped from the domain, or under that name suffixed with 1.
C15_SocialAnchorReturned ==
  (pc = "Done" /\ ~VisibilityEnabled(config)) =>
    LET kept == HiddenElementFilter(DuplicateElementFilter(elementDetails))
    IN \A k \in DOMAIN kept, d \in DOMAIN socialDomains :
         IsBareSocialAnchor(kept[k], d) =>
           \E r \in DOMAIN result :
             /\ result[r].index = kept[k].index
             /\ result[r].propertyName
                  \in {socialDomains[d][2], socialDomains[d][2] \o <<"1">>}

\* the positions before r of the elements with the raw name of element r
EarlierSameName(elements, r) ==
  {q \in 1..(r - 1) : elements[q].propertyName = elements[r].propertyName}

\* C16: uniquifyPropertyNames leaves the first element carrying a raw name
\* with that name, and gives every later element carrying it the raw name
\* followed by a positive integer that grows from one such element to the next.
C16_FirstKeepsLaterSuffixed ==
  pc = "Done" =>
    /\ Len(result) = Len(filteredElements)
    /\ \A r \in DOMAIN result :
         LET raw == filteredElements[r].propertyName
         IN IF EarlierSameName(filteredElements, r) = {}
            THEN result[r].propertyName = raw
            ELSE \E n \in 1..Len(result) :
                   /\ result[r].propertyName = raw \o Str(n)
                   /\ \A q \in EarlierSameName(filteredElements, r) :
                        \/ result[q].propertyName = raw
                        \/ \E m \in 1..(n - 1) : result[q].propertyName = raw \o Str(m)

\* C17: a second call with the same configuration on the same document
\* returns the same set of (type, selector expression) pairs as the first.
C17_SamePairsAgain ==
  (pc = "Done" /\ previous # NoPrevious) => TypeSelectorPairs(result) = previous.pairs

\* how many lines of a text are the line given
CountLines(code, line) == Cardinality({n \in DOMAIN code : code[n] = line})

\* the position of a line that occurs once in a text
LineOf(code, line) == CHOOSE n \in DOMAIN code : code[n] = line

\* the position in a collection at which the type of element r first occurs
FirstOfType(elements, r) ==
  CHOOSE q \in DOMAIN elements :
    /\ elements[q].type = elements[r].type
    /\ \A h \in 1..(q - 1) : elements[h].type # elements[r].type

\* the field declaration and the constructor line expected for an element
ExpectedField(e) == <<" "," "," "," ","r","e","a","d","o","n","l","y"," ">> \o e.propertyName \o <<":"," ","L","o","c","a","t","o","r",";">>

ExpectedInitializer(e) ==
  <<" "," "," "," "," "," "," "," ","t","h","i","s",".">> \o e.propertyName \o <<" ","="," ","t","h","i","s",".","p","a","g","e",".">> \o e.selector.selector \o <<";">>

C19_BatchesDoNotOverlap ==
  /\ Cardinality(running) <= batchSize
  /\ pc = "AwaitBatch" => \A op \in running : op[2] > i

\* the phase of the call at a position of the code
Phase(p) ==
  CASE p = "Validating" -> "Validating"
    [] p \in {"WaitLoad", "QueryingDOM"} -> "QueryingDOM"
    [] p \in {"BatchLoop", "AwaitBatch"} -> "ExtractingBatches"
    [] p \in {"SyncFilters", "AsyncFilters", "AwaitVisibility"} -> "Filtering"
    [] p = "Uniquifying" -> "Uniquifying"
    [] OTHER -> "Done"

PhaseRank(p) ==
  CASE Phase(p) = "Validating" -> 1
    [] Phase(p) = "QueryingDOM" -> 2
    [] Phase(p) = "ExtractingBatches" -> 3
    [] Phase(p) = "Filtering" -> 4
    [] Phase(p) = "Uniquifying" -> 5
    [] OTHER -> 6

\* C20: a call moves through the phases Validating, QueryingDOM,
\* ExtractingBatches, Filtering, Uniquifying, Done in this order, and its
\* caller sees it fail only from Validating, or from QueryingDOM or
\* ExtractingBatches by the overall timeout.
C20_FailsOnlyAsStated ==
  [][ /\ (pc' # "Failed") => (PhaseRank(pc') - PhaseRank(pc) \in {0, 1})
      /\ (outcome = Pending /\ outcome'.status = "failed") =>
            \/ Phase(pc) = "Validating"
            \/ /\ Phase(pc) \in {"QueryingDOM", "ExtractingBatches"}
               /\ outcome'.reason = "Element extraction timeout" ]_vars

\* C21: every call ends for its caller, with a collection or with a failure,
\* also when a visibility query never answers; a collection the caller gets
\* is the one the completed call returned, and a failure the caller got is
\* never replaced by a collection.
C21_CallEnds ==
  /\ <>(outcome # Pending)
  /\ [](outcome.status = "returned" =>
          (pc \in {"Done", "Generated"} /\ outcome.value = result))
  /\ [][outcome.status = "failed" => outcome' = outcome]_vars

\* the caller has the timeout failure while the call still waits for a
\* visibility query
C21_Witness ==
  /\ pc = "AwaitVisibility"
  /\ outcome = Failure("Element extraction timeout")

\* the stages in the order the chain is to apply them: those of the caller,
\* then duplicate, hidden-element, meaningful-content and visibility removal
StageOrder ==
  (IF "elementFilters" \in DOMAIN config THEN config.elementFilters ELSE <<>>)
    \o << [name |-> "DuplicateElementFilter",  enabled |-> TRUE, hasAsync |-> FALSE],
          [name |-> "HiddenElementFilter",     enabled |-> TRUE, hasAsync |-> FALSE],
          [name |-> "MeaningfulContentFilter", enabled |-> TRUE, hasAsync |-> FALSE],
          [name |-> "VisibilityFilter",        enabled |-> VisibilityEnabled(config),
           hasAsync |-> TRUE] >>

StageNames(stages) == [k \in DOMAIN stages |-> stages[k].name]

LoggedStages(log) == [k \in DOMAIN log |-> log[k].stage]

IsPrefix(s, t) == Len(s) <= Len(t) /\ s = SubSeq(t, 1, Len(s))

\* what an invocation of the log resolved with
LoggedOutput(e) ==
  IF e.transform = "filter" THEN ApplyFilter(e.stage, e.input)
  ELSE IF e.stage = "VisibilityFilter" /\ e.input # <<>> THEN visibleElements
  ELSE ApplyFilterAsync(e.stage, e.input)

\* C22: the synchronous transforms of the enabled stages are invoked in the
\* order caller stages, duplicate, hidden, meaningful content, visibility,
\* the first on the extracted elements and each next one on the output of the
\* one before; every asynchronous transform is invoked after all of them, in
\* the same order, on the output of the invocation before it, the next only
\* after the one before has resolved; no transform of a disabled stage is
\* invoked.
C22_StagesInOrder ==
  LET sync   == SelectSeq(filterLog, LAMBDA e : e.transform = "filter")
      async  == SelectSeq(filterLog, LAMBDA e : e.transform = "filterAsync")
      on     == SelectSeq(StageOrder, LAMBDA s : s.enabled)
      onAsync == SelectSeq(StageOrder, LAMBDA s : s.enabled /\ s.hasAsync)
  IN /\ filterLog = sync \o async
     /\ filterLog # <<>> =>
          /\ LoggedStages(sync) = StageNames(on)
          /\ sync[1].input = elementDetails
     /\ \A k \in 1..(Len(filterLog) - 1) :
          filterLog[k + 1].input = LoggedOutput(filterLog[k])
     /\ IsPrefix(LoggedStages(async), StageNames(onAsync))
     /\ pc = "AwaitVisibility" =>
          /\ async # <<>>
          /\ async[Len(async)].stage = "VisibilityFilter"
     /\ pc \in {"Uniquifying", "Done", "Generated"} =>
          /\ LoggedStages(async) = StageNames(onAsync)
          /\ filteredElements = LoggedOutput(filterLog[Len(filterLog)])

\* a call returned after the chain ran two stages of a caller, one of them
\* with an asynchronous transform, beside a disabled stage, and the
\* visibility stage queried the driver
C22_Witness ==
  /\ pc = "Done"
  /\ "elementFilters" \in DOMAIN config
  /\ \E k \in DOMAIN config.elementFilters : ~config.elementFilters[k].enabled
  /\ Len(filterLog) = 8
  /\ filterLog[7].stage = "SkipLastFilter"
  /\ filterLog[8].stage = "VisibilityFilter"
  /\ visAnswers # <<>>

\* how many visibility queries the loop of VisibilityFilter.filterAsync has
\* issued: one for every element before visIndex, and the one it waits for
VisibilityQueriesIssued == IF pc = "AwaitVisibility" THEN visIndex + 1 ELSE visIndex

\* C23: of the visibility queries issued at most one has not answered or
\* failed yet; without enableRuntimeVisibilityCheck the visibility stage is
\* not invoked, no visibility query is issued, and the call returns the
\* elements of the synchronously filtered set.
C23_OneVisibilityQueryAtATime ==
  /\ VisibilityQueriesIssued - Len(visAnswers) \in {0, 1}
  /\ pc = "AwaitVisibility" =>
       /\ visIndex < Len(visInput)
       /\ Len(visAnswers) = visIndex
  /\ ~VisibilityEnabled(config) =>
       /\ "isVisible" \notin driverLog
       /\ visAnswers = <<>>
       /\ \A k \in DOMAIN filterLog : filterLog[k].stage # "VisibilityFilter"
       /\ pc \in {"Uniquifying", "Done", "Generated"} =>
            filteredElements
              = ApplySyncFilters(mergedConfig.elementFilters, 1, elementDetails)
       /\ pc \in {"Done", "Generated"} => Indices(result) = Indices(filteredElements)

\* the query for the second element is in flight after the query for the
\* first one failed
C23_Witness ==
  /\ pc = "AwaitVisibility"
  /\ Len(visInput) = 3
  /\ visIndex = 1
  /\ visAnswers = <<"error">>

\* the single quotes of a text that no backslash precedes
UnescapedQuotes(s) ==
  Cardinality({k \in DOMAIN s : s[k] = "'" /\ (k = 1 \/ s[k - 1] # "\\")})

\* the single quotes the template of a locator expression writes itself: two
\* around the argument, and two more around the name of a role locator
TemplateQuotes(s) == IF Includes(s, <<","," ","{"," ","n","a","m","e",":"," ","'">>) THEN 4 ELSE 2

\* C24: in the locator expression of every extracted element the only single
\* quotes without a backslash before them are those of the template, so
\* every single quote that comes from the element's data is escaped.
C24_DataQuotesEscaped ==
  \A k \in DOMAIN elementDetails :
    UnescapedQuotes(elementDetails[k].selector.selector)
      = TemplateQuotes(elementDetails[k].selector.selector)

\* the places of a character in a text of lines
Occurrences(code, c) ==
  UNION {{<<n, k>> : k \in {j \in DOMAIN code[n] : code[n][j] = c}} : n \in DOMAIN code}

\* config.includeHelpers, true when the caller leaves it out
HelpersWanted == IF "includeHelpers" \in DOMAIN config THEN config.includeHelpers ELSE TRUE

\* C25: the text generatePageObject returns closes every brace it opens, the
\* one of 'export class <name> {' included, whether includeHelpers is true or
\* false, and it has the goto helper exactly when includeHelpers is true.
C25_ClassIsClosed ==
  pc = "Generated" =>
    /\ Cardinality(Occurrences(pageObject.code, "{"))
         = Cardinality(Occurrences(pageObject.code, "}"))
    /\ HelpersWanted <=>
         \E n \in DOMAIN pageObject.code :
           StartsWith(pageObject.code[n], <<" "," "," "," ","a","s","y","n","c"," ","g","o","t","o","(">>)

\* C26: what generatePageObjectMetadata returns is consistent: the class text
\* has exactly one constructor line for every element of the returned list,
\* built from its propertyName and selector expression, in the order of the
\* list, and no other.
C26_MetadataConsistent ==
  (previous # NoPrevious /\ outcome.status = "returned") =>
    LET code == pageObject.code
        elements == outcome.value
    IN /\ Cardinality({n \in DOMAIN code : StartsWith(code[n], <<" "," "," "," "," "," "," "," ","t","h","i","s",".">>)})
            = Len(elements) + 1
       /\ \A r \in DOMAIN elements :
            CountLines(code, ExpectedInitializer(elements[r])) = 1
       /\ \A a, b \in DOMAIN elements :
            a < b => LineOf(code, ExpectedInitializer(elements[a]))
                       < LineOf(code, ExpectedInitializer(elements[b]))

====
